---- MODULE Spec2Model ----
(***************************************************************************)
(* Verification model of wilderfield::priority_map.                        *)
(*                                                                         *)
(* A std::list is modelled as a sequence; a list iterator is modelled as   *)
(* the position of the element it refers to.  Position Len+1 is end(),     *)
(* position 0 is a singular or dangling iterator.  Inserting or erasing a  *)
(* list element renumbers every stored iterator, so that each iterator     *)
(* keeps referring to the same element, as std::list guarantees.  A        *)
(* reverse iterator is modelled by the position of its base(): it          *)
(* dereferences to the element at base - 1, and rend() has base 1.          *)
(***************************************************************************)
EXTENDS Integers, Sequences, FiniteSets, TLC

\* ---------------------------------------------------------------- bounds
MaxKey == 3
MaxVal == 2
MaxCount == 3
Width == 2

Keys == 1..MaxKey
Vals == (0 - MaxVal)..MaxVal

VARIABLES
    comp,         \* the Compare template argument: "greater", "less" or "abs"
    hashOrd,      \* iteration order of std::unordered_set (implementation-defined, fixed)
    nodeList_,    \* std::list<Node>, Node = [val, keys]
    keyToNode_,   \* std::unordered_map<Key, list iterator>
    vals_,        \* value-list variant: std::list<ValType>
    keys_,        \* value-list variant: std::unordered_map<Key, list iterator>
    valToKeys_,   \* value-list variant: std::unordered_map<ValType, unordered_set<Key>>
    ub,           \* TRUE once an invalid iterator has been dereferenced
    ref,          \* independent reference map key -> value driven by the same operations
    ret,          \* the last operation and what it returned or threw
    mode,         \* "run", or "drain" while a top()/pop() loop empties the map
    drainKeys,    \* keys present when the drain loop started
    drained,      \* the pairs returned by top() during the drain loop
    graph,        \* topSort: std::vector<std::vector<int>>, the adjacency lists
    pc,           \* topSort: the loop the program is in ("off" outside topSort)
    curU,         \* topSort: the loop variable u
    restV,        \* topSort: the part of graph[u] the inner loop has not visited yet
    topological,  \* topSort: the output vector
    proxy         \* a Proxy object the caller keeps: its key (0: none) and, as a
                  \* ghost, whether operator[] created the key for it

vars == <<comp, hashOrd, nodeList_, keyToNode_, vals_, keys_, valToKeys_,
          ub, ref, ret, mode, drainKeys, drained,
          graph, pc, curU, restV, topological, proxy>>

topSortVars == <<graph, pc, curU, restV, topological>>

\* ------------------------------------------------------- generic helpers
Min(S) == CHOOSE x \in S : \A y \in S : x <= y
Max(S) == CHOOSE x \in S : \A y \in S : x >= y

InsertAt(s, p, e) == SubSeq(s, 1, p - 1) \o <<e>> \o SubSeq(s, p, Len(s))
RemoveAt(s, p) == SubSeq(s, 1, p - 1) \o SubSeq(s, p + 1, Len(s))

MapErase(f, k) == [x \in (DOMAIN f) \ {k} |-> f[x]]
MapPut(f, k, v) == [x \in (DOMAIN f) \cup {k} |-> IF x = k THEN v ELSE f[x]]

\* Compare()(a, b)
Abs(a) == IF a < 0 THEN 0 - a ELSE a

\* Compare: std::less, std::greater, or a user-supplied strict total order
\* (by absolute value, ties broken by sign)
comp_(a, b) ==
    IF comp = "less" THEN a < b
    ELSE IF comp = "greater" THEN a > b
    ELSE Abs(a) < Abs(b) \/ (Abs(a) = Abs(b) /\ a < b)

\* *(keys.begin()) of a non-empty unordered_set: the first key in hash order
setBegin(S) == CHOOSE k \in S : \A j \in S : hashOrd[k] <= hashOrd[j]

\* an iterator that may be dereferenced
Deref(nl, it) == it \in 1..Len(nl)

\* the positions of the list elements that satisfy the search predicate:
\* "at or before newVal" (<=) or "at or after newVal" (>=)
Hits(seq, le, newVal) ==
    {p \in 1..Len(seq) : IF le THEN seq[p] <= newVal ELSE seq[p] >= newVal}

NodeVals(nl) == [p \in 1..Len(nl) |-> nl[p].val]

\* std::find_if(first, end(), pred) on forward iterators; hits = positions
\* where pred holds, n = length of the list
FindIf(hits, first, n) ==
    LET S == {p \in first..n : p \in hits}
    IN IF S = {} THEN n + 1 ELSE Min(S)

\* std::find_if(rfirst, rend(), pred) on reverse iterators (given and
\* returned as base())
RFindIf(hits, rfirst) ==
    LET S == {p \in 1..(rfirst - 1) : p \in hits}
    IN IF S = {} THEN 1 ELSE Max(S) + 1

\* std::list::insert(pos, node): every iterator at or after pos moves one up
ListInsert(st, pos, node) ==
    [st EXCEPT !.nl = InsertAt(st.nl, pos, node),
               !.k2n = [k \in DOMAIN st.k2n |->
                           IF st.k2n[k] >= pos THEN st.k2n[k] + 1 ELSE st.k2n[k]]]

\* std::list::erase(pos): iterators to the erased element dangle
ListErase(st, pos) ==
    [st EXCEPT !.nl = RemoveAt(st.nl, pos),
               !.k2n = [k \in DOMAIN st.k2n |->
                           IF st.k2n[k] = pos THEN 0
                           ELSE IF st.k2n[k] > pos THEN st.k2n[k] - 1
                           ELSE st.k2n[k]]]

KeysInsert(st, pos, key) == [st EXCEPT !.nl[pos].keys = @ \cup {key}]

\* mutant: keys.clear() instead of keys.erase(key)
KeysErase_clear(st, pos, key) == [st EXCEPT !.nl[pos].keys = {}]

\* node.keys.erase(key)
KeysErase(st, pos, key) == [st EXCEPT !.nl[pos].keys = @ \ {key}]

Undefined(st) == [st EXCEPT !.ub = TRUE]

\* ======================================================================
\* The node-list variant with erase (priority_map.hpp with insert/update)
\* ======================================================================

\* mutant: the emptied node is left in the list
EraseIfEmpty_never(st, it) == st

\* "if (oldIt->keys.empty()) nodeList_.erase(oldIt);"
EraseIfEmpty(st, it) ==
    IF st.nl[it].keys = {} THEN ListErase(st, it) ELSE st

\* mutant: the key joins the node the search stopped at without comparing
\* its value with newVal
updateTowardsEnd_noEq(s1, key, newVal, oldIt) ==
    LET ip == FindIf(Hits(NodeVals(s1.nl), comp_(1, 0), newVal), oldIt, Len(s1.nl))
        merge == ip # Len(s1.nl) + 1
        s2 == IF merge THEN KeysInsert(s1, ip, key)
              ELSE ListInsert(s1, ip, [val |-> newVal, keys |-> {key}])
        s3 == [s2 EXCEPT !.k2n = MapPut(@, key, ip)]
        old2 == IF ~merge /\ oldIt >= ip THEN oldIt + 1 ELSE oldIt
    IN IF s3.nl[old2].keys = {} THEN ListErase(s3, old2) ELSE s3

\* update(), branch comp_(oldVal, newVal): linear search towards end
updateTowardsEnd(s1, key, newVal, oldIt) ==
    LET ip == FindIf(Hits(NodeVals(s1.nl), comp_(1, 0), newVal), oldIt, Len(s1.nl))
        merge == ip # Len(s1.nl) + 1 /\ s1.nl[ip].val = newVal
        s2 == IF merge THEN KeysInsert(s1, ip, key)
              ELSE ListInsert(s1, ip, [val |-> newVal, keys |-> {key}])
        s3 == [s2 EXCEPT !.k2n = MapPut(@, key, ip)]
        old2 == IF ~merge /\ oldIt >= ip THEN oldIt + 1 ELSE oldIt
    IN EraseIfEmpty(s3, old2)

\* mutant: a new node is always inserted, also next to a node with newVal
updateTowardsBegin_noMerge(s1, key, newVal, oldIt) ==
    LET rip == RFindIf(Hits(NodeVals(s1.nl), comp_(0, 1), newVal), oldIt)
        s2 == ListInsert(s1, rip, [val |-> newVal, keys |-> {key}])
        s3 == [s2 EXCEPT !.k2n = MapPut(@, key, rip)]
        old2 == IF oldIt >= rip THEN oldIt + 1 ELSE oldIt
    IN EraseIfEmpty(s3, old2)

\* mutant: on a merge the index stores insertionPoint.base() instead of
\* std::next(insertionPoint).base()
updateTowardsBegin_base(s1, key, newVal, oldIt) ==
    LET rip == RFindIf(Hits(NodeVals(s1.nl), comp_(0, 1), newVal), oldIt)
        merge == rip # 1 /\ s1.nl[rip - 1].val = newVal
        s2 == IF merge THEN KeysInsert(s1, rip - 1, key)
              ELSE ListInsert(s1, rip, [val |-> newVal, keys |-> {key}])
        s3 == [s2 EXCEPT !.k2n = MapPut(@, key, rip)]
        old2 == IF ~merge /\ oldIt >= rip THEN oldIt + 1 ELSE oldIt
    IN IF s3.nl[old2].keys = {} THEN ListErase(s3, old2) ELSE s3

\* update(), else branch: linear search towards begin with reverse iterators
updateTowardsBegin(s1, key, newVal, oldIt) ==
    LET rip == RFindIf(Hits(NodeVals(s1.nl), comp_(0, 1), newVal), oldIt)
        merge == rip # 1 /\ s1.nl[rip - 1].val = newVal
        s2 == IF merge THEN KeysInsert(s1, rip - 1, key)
              ELSE ListInsert(s1, rip, [val |-> newVal, keys |-> {key}])
        s3 == [s2 EXCEPT !.k2n = MapPut(@, key, IF merge THEN rip - 1 ELSE rip)]
        old2 == IF ~merge /\ oldIt >= rip THEN oldIt + 1 ELSE oldIt
    IN EraseIfEmpty(s3, old2)

\* mutant: no early return for an unchanged value
update_noEarlyReturn(st, key, newVal) ==
    IF key \notin DOMAIN st.k2n
    THEN Undefined([st EXCEPT !.k2n = MapPut(@, key, 0)])
    ELSE IF ~Deref(st.nl, st.k2n[key]) THEN Undefined(st)
    ELSE LET oldIt == st.k2n[key]
             oldVal == st.nl[oldIt].val
             s1 == [KeysErase(st, oldIt, key) EXCEPT !.k2n = MapErase(@, key)]
         IN IF comp_(oldVal, newVal)
            THEN updateTowardsEnd(s1, key, newVal, oldIt)
            ELSE updateTowardsBegin(s1, key, newVal, oldIt)

\* mutant: the early return for an unchanged value comes after the key was
\* removed from its node and from the index
update_lateReturn(st, key, newVal) ==
    IF key \notin DOMAIN st.k2n
    THEN Undefined([st EXCEPT !.k2n = MapPut(@, key, 0)])
    ELSE IF ~Deref(st.nl, st.k2n[key]) THEN Undefined(st)
    ELSE LET oldIt == st.k2n[key]
             oldVal == st.nl[oldIt].val
             s1 == [KeysErase(st, oldIt, key) EXCEPT !.k2n = MapErase(@, key)]
         IN IF oldVal = newVal THEN s1
            ELSE IF comp_(oldVal, newVal)
                 THEN updateTowardsEnd(s1, key, newVal, oldIt)
                 ELSE updateTowardsBegin(s1, key, newVal, oldIt)

\* priority_map::update(key, newVal)
update(st, key, newVal) ==
    IF key \notin DOMAIN st.k2n
    THEN Undefined([st EXCEPT !.k2n = MapPut(@, key, 0)])
    ELSE IF ~Deref(st.nl, st.k2n[key]) THEN Undefined(st)
    ELSE LET oldIt == st.k2n[key]
             oldVal == st.nl[oldIt].val
             s1 == [KeysErase(st, oldIt, key) EXCEPT !.k2n = MapErase(@, key)]
         IN IF oldVal = newVal THEN st
            ELSE IF comp_(oldVal, newVal)
                 THEN updateTowardsEnd(s1, key, newVal, oldIt)
                 ELSE updateTowardsBegin(s1, key, newVal, oldIt)

\* mutant: the searches of update() start at the list's begin() and rbegin()
updateScan_fromEnds(st, key, newVal) ==
    LET vs == NodeVals(st.nl)
        rhits == Hits(vs, comp_(0, 1), newVal)
    IN IF comp_(st.nl[st.k2n[key]].val, newVal)
       THEN 1..Min({FindIf(Hits(vs, comp_(1, 0), newVal), 1, Len(st.nl)), Len(st.nl)})
       ELSE (IF rhits = {} THEN 1 ELSE Max(rhits))..Len(st.nl)

\* the nodes the std::find_if of update(key, newVal) applies its predicate
\* to, as positions of the list: from oldIt towards end up to the first hit,
\* or from the node before oldIt towards begin down to the first hit
updateScan(st, key, newVal) ==
    LET oldIt == st.k2n[key]
        vs == NodeVals(st.nl)
        rhits == {p \in 1..(oldIt - 1) : p \in Hits(vs, comp_(0, 1), newVal)}
    IN IF comp_(st.nl[st.k2n[key]].val, newVal)
       THEN oldIt..Min({FindIf(Hits(vs, comp_(1, 0), newVal), oldIt, Len(st.nl)), Len(st.nl)})
       ELSE (IF rhits = {} THEN 1 ELSE Max(rhits))..(oldIt - 1)

\* mutant: the minHeap branch puts a new 0 node at begin() without a search
insertMin_front(st, key) ==
    [ListInsert(st, 1, [val |-> 0, keys |-> {key}]) EXCEPT !.k2n = MapPut(@, key, 1)]

\* insert(), minHeap branch: linear search towards end for the 0 node
insertMin(st, key) ==
    LET ip == FindIf(Hits(NodeVals(st.nl), FALSE, 0), 1, Len(st.nl))
        merge == ip # Len(st.nl) + 1 /\ st.nl[ip].val = 0
        s2 == IF merge THEN KeysInsert(st, ip, key)
              ELSE ListInsert(st, ip, [val |-> 0, keys |-> {key}])
    IN [s2 EXCEPT !.k2n = MapPut(@, key, ip)]

\* mutant: the maxHeap branch searches forward like the minHeap branch
insertMax_forward(st, key) == insertMin(st, key)

\* insert(), maxHeap branch: linear search towards begin for the 0 node
insertMax(st, key) ==
    LET rip == RFindIf(Hits(NodeVals(st.nl), FALSE, 0), Len(st.nl) + 1)
        merge == rip # 1 /\ st.nl[rip - 1].val = 0
        s2 == IF merge THEN KeysInsert(st, rip - 1, key)
              ELSE ListInsert(st, rip, [val |-> 0, keys |-> {key}])
    IN [s2 EXCEPT !.k2n = MapPut(@, key, IF merge THEN rip - 1 ELSE rip)]

\* priority_map::insert(key, newVal)
insert(st, key, newVal) ==
    LET s1 == IF key \notin DOMAIN st.k2n
              THEN (IF comp_(0, 1) THEN insertMin(st, key) ELSE insertMax(st, key))
              ELSE st
    IN update(s1, key, newVal)

\* mutant: operator[] calls insert(key, 0) without looking the key up
subscript_always(st, key) == insert(st, key, 0)

\* priority_map::operator[](key)
subscript(st, key) ==
    IF key \notin DOMAIN st.k2n THEN insert(st, key, 0) ELSE st

\* mutant: the value is read from the first node
getVal_first(st, key) == st.nl[1].val

\* priority_map::getVal(key) of a key of keyToNode_ (throws for any other key)
getVal(st, key) == st.nl[st.k2n[key]].val

\* mutant: the step is applied to 0 instead of the current value
proxyStep_fromZero(st, key, d) ==
    IF key \notin DOMAIN st.k2n THEN st
    ELSE IF ~Deref(st.nl, st.k2n[key]) THEN Undefined(st)
    ELSE update(st, key, d)

\* Proxy::operator++ / operator-- : update(key, getVal(key) + d)
proxyStep(st, key, d) ==
    IF key \notin DOMAIN st.k2n THEN st
    ELSE IF ~Deref(st.nl, st.k2n[key]) THEN Undefined(st)
    ELSE update(st, key, getVal(st, key) + d)

\* mutant: size() counts the nodes
size_nodes(st) == Len(st.nl)

\* priority_map::size()
size(st) == Cardinality(DOMAIN st.k2n)

\* priority_map::empty()
empty(st) == DOMAIN st.k2n = {}

\* priority_map::count(key)
count(st, key) == IF key \in DOMAIN st.k2n THEN 1 ELSE 0

\* mutant: erase() forgets keyToNode_.erase(key)
erase_keepIndex(st, key) ==
    IF key \in DOMAIN st.k2n
    THEN IF ~Deref(st.nl, st.k2n[key]) THEN Undefined(st)
         ELSE LET oldIt == st.k2n[key]
              IN EraseIfEmpty(KeysErase(st, oldIt, key), oldIt)
    ELSE st

\* mutant: erase() leaves the emptied node in the list
erase_keepNode(st, key) ==
    IF key \in DOMAIN st.k2n
    THEN IF ~Deref(st.nl, st.k2n[key]) THEN Undefined(st)
         ELSE [KeysErase(st, st.k2n[key], key) EXCEPT !.k2n = MapErase(@, key)]
    ELSE st

\* priority_map::erase(key)
erase(st, key) ==
    IF key \in DOMAIN st.k2n
    THEN IF ~Deref(st.nl, st.k2n[key]) THEN Undefined(st)
         ELSE LET oldIt == st.k2n[key]
                  s1 == KeysErase(st, oldIt, key)
                  s2 == EraseIfEmpty(s1, oldIt)
              IN [s2 EXCEPT !.k2n = MapErase(@, key)]
    ELSE st

\* mutant: the two exceptions are exchanged
topThrows_swapped(st) ==
    IF st.nl = <<>> THEN "logic_error"
    ELSE IF st.nl[1].keys = {} THEN "out_of_range"
    ELSE "none"

\* what top() and pop() throw: "none", "out_of_range" or "logic_error"
topThrows(st) ==
    IF st.nl = <<>> THEN "out_of_range"
    ELSE IF st.nl[1].keys = {} THEN "logic_error"
    ELSE "none"

\* mutant: the key is taken from the begin of the index instead of the node
top_indexKey(st) == [key |-> setBegin(DOMAIN st.k2n), val |-> st.nl[1].val]

\* priority_map::top() when it does not throw
top(st) == [key |-> setBegin(st.nl[1].keys), val |-> st.nl[1].val]

\* mutant: pop() removes the last key of the first node instead of the first
pop_lastKey(st) ==
    IF topThrows(st) # "none" THEN st
    ELSE LET key == CHOOSE k \in st.nl[1].keys :
                        \A j \in st.nl[1].keys : hashOrd[j] <= hashOrd[k]
             s1 == [KeysErase(st, 1, key) EXCEPT !.k2n = MapErase(@, key)]
         IN EraseIfEmpty(s1, 1)

\* mutant: pop() leaves the emptied first node in the list
pop_keepNode(st) ==
    IF topThrows(st) # "none" THEN st
    ELSE LET key == setBegin(st.nl[1].keys)
         IN [KeysErase(st, 1, key) EXCEPT !.k2n = MapErase(@, key)]

\* mutant: pop() forgets keyToNode_.erase(key)
pop_keepIndex(st) ==
    IF topThrows(st) # "none" THEN st
    ELSE LET key == setBegin(st.nl[1].keys)
             s1 == KeysErase(st, 1, key)
         IN EraseIfEmpty(s1, 1)

\* priority_map::pop()
pop(st) ==
    IF topThrows(st) # "none" THEN st
    ELSE LET key == setBegin(st.nl[1].keys)
             s1 == [KeysErase(st, 1, key) EXCEPT !.k2n = MapErase(@, key)]
         IN EraseIfEmpty(s1, 1)

\* ---------------------------------------------------------------- state
St == [nl |-> nodeList_, k2n |-> keyToNode_, ub |-> ub]

Commit(s) ==
    \E t \in {s} :
        /\ nodeList_' = t.nl
        /\ keyToNode_' = t.k2n
        /\ ub' = t.ub

\* new: the key was absent before the operation
Ret(op, key, val, exc, new) ==
    [op |-> op, key |-> key, val |-> val, exc |-> exc, new |-> new]

Absent(k) == k \notin DOMAIN keyToNode_

\* the value a read through a fresh proxy yields (0 when the read is undefined)
ReadVal(s, k) ==
    IF k \in DOMAIN s.k2n /\ Deref(s.nl, s.k2n[k]) THEN getVal(s, k) ELSE 0

RefVal(k) == IF k \in DOMAIN ref THEN ref[k] ELSE 0

Frozen ==
    /\ UNCHANGED <<comp, hashOrd, mode, drainKeys, drained, vals_, keys_, valToKeys_>>
    /\ UNCHANGED topSortVars
    /\ UNCHANGED proxy

\* the hash orders considered: ascending and descending key order
HashOrders == {[k \in Keys |-> k], [k \in Keys |-> MaxKey + 1 - k]}

Init ==
    /\ comp \in {"greater", "less"}
    /\ hashOrd \in HashOrders
    /\ nodeList_ = <<>>
    /\ keyToNode_ = <<>>
    /\ vals_ = <<>>
    /\ keys_ = <<>>
    /\ valToKeys_ = <<>>
    /\ ub = FALSE
    /\ ref = <<>>
    /\ ret = Ret("init", 0, 0, "none", FALSE)
    /\ mode = "run"
    /\ drainKeys = {}
    /\ drained = <<>>
    /\ graph = <<>>
    /\ pc = "off"
    /\ curU = 0
    /\ restV = <<>>
    /\ topological = <<>>
    /\ proxy = [key |-> 0, new |-> FALSE]

Running == mode = "run" /\ ~ub

\* ValType v = pmap[k];
Read(k) ==
    /\ Running
    /\ LET s == subscript(St, k)
       IN /\ Commit(IF k \in DOMAIN s.k2n /\ ~Deref(s.nl, s.k2n[k]) THEN Undefined(s) ELSE s)
          /\ ret' = Ret("read", k, ReadVal(s, k), "none", Absent(k))
    /\ ref' = MapPut(ref, k, RefVal(k))
    /\ Frozen

\* ++pmap[k];
PreInc(k) ==
    /\ Running
    /\ RefVal(k) + 1 <= MaxVal
    /\ Commit(proxyStep(subscript(St, k), k, 1))
    /\ ret' = Ret("inc", k, 0, "none", Absent(k))
    /\ ref' = MapPut(ref, k, RefVal(k) + 1)
    /\ Frozen

\* --pmap[k];
PreDec(k) ==
    /\ Running
    /\ RefVal(k) - 1 >= 0 - MaxVal
    /\ Commit(proxyStep(subscript(St, k), k, 0 - 1))
    /\ ret' = Ret("dec", k, 0, "none", Absent(k))
    /\ ref' = MapPut(ref, k, RefVal(k) - 1)
    /\ Frozen

\* pmap[k] = v;
Assign(k, v) ==
    /\ Running
    /\ Commit(update(subscript(St, k), k, v))
    /\ ret' = Ret("assign", k, v, "none", Absent(k))
    /\ ref' = MapPut(ref, k, v)
    /\ Frozen

\* pmap.erase(k);
Erase(k) ==
    /\ Running
    /\ Commit(erase(St, k))
    /\ ret' = Ret("erase", k, IF Absent(k) THEN 0 ELSE 1, "none", Absent(k))
    /\ ref' = MapErase(ref, k)
    /\ Frozen

\* pmap.top();
Top ==
    /\ Running
    /\ ret' = IF topThrows(St) = "none"
              THEN Ret("top", top(St).key, top(St).val, "none", FALSE)
              ELSE Ret("top", 0, 0, topThrows(St), FALSE)
    /\ UNCHANGED <<nodeList_, keyToNode_, ub, ref>>
    /\ Frozen

\* pmap.pop();
Pop ==
    /\ Running
    /\ Commit(pop(St))
    /\ ret' = IF topThrows(St) = "none"
              THEN Ret("pop", top(St).key, 0, "none", FALSE)
              ELSE Ret("pop", 0, 0, topThrows(St), FALSE)
    /\ ref' = IF topThrows(St) = "none" THEN MapErase(ref, top(St).key) ELSE ref
    /\ Frozen

Next ==
    \/ \E k \in Keys : Read(k)
    \/ \E k \in Keys : PreInc(k)
    \/ \E k \in Keys : PreDec(k)
    \/ \E k \in Keys, v \in Vals : Assign(k, v)
    \/ \E k \in Keys : Erase(k)
    \/ Top
    \/ Pop

Spec == Init /\ [][Next]_vars

\* ---------------------------------------------- the top()/pop() drain loop
\* while (!pmap.empty()) { auto [k, v] = pmap.top(); pmap.pop(); } starts
StartDrain ==
    /\ Running
    /\ mode' = "drain"
    /\ drainKeys' = DOMAIN keyToNode_
    /\ drained' = <<>>
    /\ ret' = Ret("drain", 0, 0, "none", FALSE)
    /\ UNCHANGED <<comp, hashOrd, nodeList_, keyToNode_, ub, ref>>
    /\ UNCHANGED <<vals_, keys_, valToKeys_>>
    /\ UNCHANGED topSortVars
    /\ UNCHANGED proxy

\* one top()/pop() pair; a throwing top() ends the pair
TopPop ==
    /\ mode = "drain" /\ ~ub
    /\ Commit(pop(St))
    /\ IF topThrows(St) = "none"
       THEN /\ drained' = Append(drained, top(St))
            /\ ret' = Ret("toppop", top(St).key, top(St).val, "none", FALSE)
            /\ ref' = MapErase(ref, top(St).key)
       ELSE /\ drained' = drained
            /\ ret' = Ret("toppop", 0, 0, topThrows(St), FALSE)
            /\ ref' = ref
    /\ UNCHANGED <<comp, hashOrd, mode, drainKeys, vals_, keys_, valToKeys_>>
    /\ UNCHANGED topSortVars
    /\ UNCHANGED proxy

NextDrain == Next \/ StartDrain \/ TopPop

SpecDrain == Init /\ [][NextDrain]_vars

\* ------------------------------- removal and re-entry of a key
\* drained holds the last removed key with the value it held
RemovedFrozen ==
    /\ UNCHANGED <<comp, hashOrd, mode, drainKeys, vals_, keys_, valToKeys_>>
    /\ UNCHANGED topSortVars
    /\ UNCHANGED proxy

\* pmap.erase(k);
RemoveErase(k) ==
    /\ Running
    /\ Commit(erase(St, k))
    /\ ret' = Ret("erase", k, IF Absent(k) THEN 0 ELSE 1, "none", Absent(k))
    /\ ref' = MapErase(ref, k)
    /\ drained' = IF k \in DOMAIN keyToNode_
                  THEN <<[key |-> k, val |-> getVal(St, k)]>> ELSE drained
    /\ RemovedFrozen

\* pmap.pop();
RemovePop ==
    /\ Running
    /\ Commit(pop(St))
    /\ IF topThrows(St) = "none"
       THEN /\ ret' = Ret("pop", top(St).key, 0, "none", FALSE)
            /\ ref' = MapErase(ref, top(St).key)
            /\ drained' = <<top(St)>>
       ELSE /\ ret' = Ret("pop", 0, 0, topThrows(St), FALSE)
            /\ ref' = ref
            /\ drained' = drained
    /\ RemovedFrozen

NextReenter ==
    \/ \E k \in Keys : Read(k)
    \/ \E k \in Keys : PreInc(k)
    \/ \E k \in Keys : PreDec(k)
    \/ \E k \in Keys : RemoveErase(k)
    \/ RemovePop

SpecReenter == Init /\ [][NextReenter]_vars

\* ------------------------------------------- the const queries
\* pmap.size();
SizeQuery ==
    /\ Running
    /\ ret' = Ret("size", 0, size(St), "none", FALSE)
    /\ UNCHANGED <<nodeList_, keyToNode_, ub, ref>>
    /\ Frozen

\* pmap.empty();
EmptyQuery ==
    /\ Running
    /\ ret' = Ret("empty", 0, IF empty(St) THEN 1 ELSE 0, "none", FALSE)
    /\ UNCHANGED <<nodeList_, keyToNode_, ub, ref>>
    /\ Frozen

\* pmap.count(k);
CountQuery(k) ==
    /\ Running
    /\ ret' = Ret("count", k, count(St, k), "none", Absent(k))
    /\ UNCHANGED <<nodeList_, keyToNode_, ub, ref>>
    /\ Frozen

NextQuery == Next \/ SizeQuery \/ EmptyQuery \/ \E k \in Keys : CountQuery(k)

SpecQuery == Init /\ [][NextQuery]_vars

\* ------------------------------------------- a Proxy kept by the caller
\* auto p = pmap[k];
Hold(k) ==
    /\ Running
    /\ proxy.key = 0
    /\ Commit(subscript(St, k))
    /\ proxy' = [key |-> k, new |-> Absent(k)]
    /\ ret' = Ret("hold", k, RefVal(k), "none", Absent(k))
    /\ ref' = MapPut(ref, k, RefVal(k))
    /\ UNCHANGED <<comp, hashOrd, mode, drainKeys, drained, vals_, keys_, valToKeys_>>
    /\ UNCHANGED topSortVars

HeldFrozen ==
    /\ UNCHANGED <<comp, hashOrd, mode, drainKeys, drained, vals_, keys_, valToKeys_>>
    /\ UNCHANGED topSortVars
    /\ UNCHANGED proxy

\* ValType v = p;   Proxy::operator ValType(): pm->getVal(key)
HeldRead ==
    /\ Running
    /\ proxy.key # 0
    /\ IF proxy.key \notin DOMAIN keyToNode_
       THEN /\ ret' = Ret("pread", proxy.key, 0, "out_of_range", TRUE)
            /\ UNCHANGED <<nodeList_, keyToNode_, ub>>
       ELSE IF ~Deref(nodeList_, keyToNode_[proxy.key])
       THEN /\ Commit(Undefined(St))
            /\ \E v \in Vals : ret' = Ret("pread", proxy.key, v, "none", FALSE)
       ELSE /\ ret' = Ret("pread", proxy.key, getVal(St, proxy.key), "none", FALSE)
            /\ UNCHANGED <<nodeList_, keyToNode_, ub>>
    /\ UNCHANGED ref
    /\ HeldFrozen

\* mutant: the step goes through operator[] and creates an absent key anew
HeldStep_viaSubscript(d) ==
    /\ Running
    /\ proxy.key # 0
    /\ RefVal(proxy.key) + d \in Vals
    /\ \E s \in {subscript(St, proxy.key)} : Commit(proxyStep(s, proxy.key, d))
    /\ ret' = Ret(IF d = 1 THEN "pinc" ELSE "pdec", proxy.key, 0, "none", Absent(proxy.key))
    /\ ref' = MapPut(ref, proxy.key, RefVal(proxy.key) + d)
    /\ HeldFrozen

\* ++p; / --p;   Proxy::operator++ / operator--: pm->update(key, pm->getVal(key) + d)
HeldStep(d) ==
    /\ Running
    /\ proxy.key # 0
    /\ RefVal(proxy.key) + d \in Vals
    /\ IF proxy.key \notin DOMAIN keyToNode_
       THEN /\ ret' = Ret(IF d = 1 THEN "pinc" ELSE "pdec", proxy.key, 0, "out_of_range", TRUE)
            /\ UNCHANGED <<nodeList_, keyToNode_, ub, ref>>
       ELSE /\ Commit(proxyStep(St, proxy.key, d))
            /\ ret' = Ret(IF d = 1 THEN "pinc" ELSE "pdec", proxy.key, 0, "none", FALSE)
            /\ ref' = MapPut(ref, proxy.key, RefVal(proxy.key) + d)
    /\ HeldFrozen

\* p = v;   Proxy::operator=: pm->update(key, val)
HeldAssign(v) ==
    /\ Running
    /\ proxy.key # 0
    /\ Commit(update(St, proxy.key, v))
    /\ ret' = Ret("passign", proxy.key, v, "none", Absent(proxy.key))
    /\ ref' = MapPut(ref, proxy.key, v)
    /\ HeldFrozen

NextProxy ==
    \/ Next
    \/ \E k \in Keys : Hold(k)
    \/ HeldRead
    \/ \E d \in {1, 0 - 1} : HeldStep(d)
    \/ \E v \in Vals : HeldAssign(v)

SpecProxy == Init /\ [][NextProxy]_vars

\* ------------------------------------------- user-supplied Compare
\* priority_map<Key, int, AbsLess> pmap;
InitCustom ==
    /\ comp = "abs"
    /\ hashOrd \in HashOrders
    /\ nodeList_ = <<>>
    /\ keyToNode_ = <<>>
    /\ vals_ = <<>>
    /\ keys_ = <<>>
    /\ valToKeys_ = <<>>
    /\ ub = FALSE
    /\ ref = <<>>
    /\ ret = Ret("init", 0, 0, "none", FALSE)
    /\ mode = "run"
    /\ drainKeys = {}
    /\ drained = <<>>
    /\ graph = <<>>
    /\ pc = "off"
    /\ curU = 0
    /\ restV = <<>>
    /\ topological = <<>>
    /\ proxy = [key |-> 0, new |-> FALSE]

SpecCustom == InitCustom /\ [][Next]_vars

\* ------------------------------------------- topological sort (Kahn)
\* the elements of a set of keys in ascending order
RECURSIVE Ascending(_)
Ascending(S) == IF S = {} THEN <<>> ELSE <<Min(S)>> \o Ascending(S \ {Min(S)})

\* the edges u -> v of an adjacency vector
Edges(g) == {e \in (1..Len(g)) \X (1..Len(g)) : \E i \in 1..Len(g[e[1]]) : g[e[1]][i] = e[2]}

\* a directed graph is acyclic iff its nodes can be ranked along its edges
Acyclic(n, E) == \E f \in Permutations(1..n) : \A e \in E : f[e[1]] < f[e[2]]

\* the adjacency vectors of all directed acyclic graphs with 1..MaxKey nodes
Dags ==
    UNION {{[u \in 1..n |-> Ascending({v \in 1..n : <<u, v>> \in E})] :
              E \in {F \in SUBSET {e \in (1..n) \X (1..n) : e[1] # e[2]} : Acyclic(n, F)}} :
           n \in 1..MaxKey}

\* the first node at or after u with a non-empty adjacency list, 0 if none
NextSource(u) ==
    LET S == {w \in u..Len(graph) : graph[w] # <<>>}
    IN IF S = {} THEN 0 ELSE Min(S)

TopSortFrozen ==
    UNCHANGED <<comp, hashOrd, mode, drainKeys, drained, vals_, keys_, valToKeys_,
                graph, proxy>>

\* wilderfield::priority_map<int, int, std::less<int>> pmap;
InitTopSort ==
    /\ comp = "less"
    /\ hashOrd \in HashOrders
    /\ nodeList_ = <<>>
    /\ keyToNode_ = <<>>
    /\ vals_ = <<>>
    /\ keys_ = <<>>
    /\ valToKeys_ = <<>>
    /\ ub = FALSE
    /\ ref = <<>>
    /\ ret = Ret("init", 0, 0, "none", FALSE)
    /\ mode = "run"
    /\ drainKeys = {}
    /\ drained = <<>>
    /\ graph = <<>>
    /\ pc = "call"
    /\ curU = 0
    /\ restV = <<>>
    /\ topological = <<>>
    /\ proxy = [key |-> 0, new |-> FALSE]

\* topSort(graph) is called with some directed acyclic graph
Call ==
    /\ pc = "call"
    /\ graph' \in Dags
    /\ pc' = "zero"
    /\ curU' = 1
    /\ ret' = Ret("call", 0, 0, "none", FALSE)
    /\ UNCHANGED <<comp, hashOrd, mode, drainKeys, drained, vals_, keys_, valToKeys_>>
    /\ UNCHANGED <<nodeList_, keyToNode_, ub, ref, restV, topological, proxy>>

\* for (u ...) pmap[u] = 0;
SetZero ==
    /\ pc = "zero" /\ ~ub
    /\ \E s \in {subscript(St, curU)} : Commit(update(s, curU, 0))
    /\ ret' = Ret("assign", curU, 0, "none", Absent(curU))
    /\ ref' = MapPut(ref, curU, 0)
    /\ IF curU < Len(graph)
       THEN /\ curU' = curU + 1
            /\ UNCHANGED <<pc, restV>>
       ELSE IF NextSource(1) = 0
       THEN /\ pc' = "loop"
            /\ UNCHANGED <<curU, restV>>
       ELSE /\ pc' = "indegree"
            /\ curU' = NextSource(1)
            /\ restV' = graph[NextSource(1)]
    /\ UNCHANGED topological
    /\ TopSortFrozen

\* for (u ...) for (v : graph[u]) ++pmap[v];
CountIndegree ==
    /\ pc = "indegree" /\ ~ub
    /\ LET v == Head(restV)
       IN /\ \E s \in {subscript(St, v)} : Commit(proxyStep(s, v, 1))
          /\ ret' = Ret("inc", v, RefVal(v) + 1, "none", Absent(v))
          /\ ref' = MapPut(ref, v, RefVal(v) + 1)
    /\ IF Tail(restV) # <<>>
       THEN /\ restV' = Tail(restV)
            /\ UNCHANGED <<pc, curU>>
       ELSE IF NextSource(curU + 1) = 0
       THEN /\ pc' = "loop"
            /\ restV' = <<>>
            /\ UNCHANGED curU
       ELSE /\ curU' = NextSource(curU + 1)
            /\ restV' = graph[NextSource(curU + 1)]
            /\ UNCHANGED pc
    /\ UNCHANGED topological
    /\ TopSortFrozen

\* while (!pmap.empty()) { auto [u, minVal] = pmap.top(); pmap.pop();
\*                         topological.push_back(u); ...
\* a throwing top() ends the program
TakeTop ==
    /\ pc = "loop" /\ ~ub
    /\ ~empty(St)
    /\ Commit(pop(St))
    /\ IF topThrows(St) = "none"
       THEN /\ ret' = Ret("toppop", top(St).key, top(St).val, "none", FALSE)
            /\ ref' = MapErase(ref, top(St).key)
            /\ topological' = Append(topological, top(St).key)
            /\ curU' = top(St).key
            /\ restV' = graph[top(St).key]
            /\ pc' = IF graph[top(St).key] = <<>> THEN "loop" ELSE "relax"
       ELSE /\ ret' = Ret("toppop", 0, 0, topThrows(St), FALSE)
            /\ pc' = "threw"
            /\ UNCHANGED <<ref, topological, curU, restV>>
    /\ TopSortFrozen

\*                         for (v : graph[u]) --pmap[v]; }
Relax ==
    /\ pc = "relax" /\ ~ub
    /\ LET v == Head(restV)
       IN /\ \E s \in {subscript(St, v)} : Commit(proxyStep(s, v, -1))
          /\ ret' = Ret("dec", v, RefVal(v) - 1, "none", Absent(v))
          /\ ref' = MapPut(ref, v, RefVal(v) - 1)
    /\ restV' = Tail(restV)
    /\ pc' = IF Tail(restV) = <<>> THEN "loop" ELSE "relax"
    /\ UNCHANGED <<curU, topological>>
    /\ TopSortFrozen

\* the while loop ends: pmap.empty()
Finish ==
    /\ pc = "loop" /\ ~ub
    /\ empty(St)
    /\ pc' = "done"
    /\ ret' = Ret("done", 0, 0, "none", FALSE)
    /\ UNCHANGED <<nodeList_, keyToNode_, ub, ref, curU, restV, topological>>
    /\ TopSortFrozen

NextTopSort == Call \/ SetZero \/ CountIndegree \/ TakeTop \/ Relax \/ Finish

\* the program is sequential: it keeps running until it returns
SpecTopSort == InitTopSort /\ [][NextTopSort]_vars /\ WF_vars(NextTopSort)

\* ------------------------------------------------- structure predicates
\* every index entry refers to a node holding the key, and every key of a
\* node is indexed to that node
Bijection(st) ==
    /\ \A k \in DOMAIN st.k2n :
          /\ Deref(st.nl, st.k2n[k])
          /\ k \in st.nl[st.k2n[k]].keys
    /\ \A p \in 1..Len(st.nl) : \A k \in st.nl[p].keys :
          /\ k \in DOMAIN st.k2n
          /\ st.k2n[k] = p

\* adjacent nodes are ordered by Compare
Sorted(nl) == \A p \in 1..(Len(nl) - 1) : comp_(nl[p].val, nl[p + 1].val)

\* no node is empty
NoEmpty(nl) == \A p \in 1..Len(nl) : nl[p].keys # {}

\* no value occurs in two nodes
NoDup(nl) == \A p, q \in 1..Len(nl) : p # q => nl[p].val # nl[q].val

Consistent(st) ==
    ~st.ub /\ Bijection(st) /\ Sorted(st.nl) /\ NoEmpty(st.nl) /\ NoDup(st.nl)

\* ======================================================================
\* The header with increment/decrement/emplace
\* (include/wilderfield/priority_map.hpp)
\* ======================================================================

\* mutant: a new node is always created, also when the next node already
\* holds newVal
stepToNext_noMerge(s1, key, newVal, nodeIt) ==
    LET nextNodeIt == nodeIt + 1
        s2 == ListInsert(s1, nextNodeIt, [val |-> newVal, keys |-> {}])
        s3 == [KeysInsert(s2, nextNodeIt, key) EXCEPT !.k2n = MapPut(@, key, nextNodeIt)]
    IN EraseIfEmpty(s3, nodeIt)

\* increment()/decrement(), branch comp(oldVal, newVal): use or create the next node
stepToNext(s1, key, newVal, nodeIt) ==
    LET nextNodeIt == nodeIt + 1
        fresh == nextNodeIt = Len(s1.nl) + 1 \/ s1.nl[nextNodeIt].val # newVal
        s2 == IF fresh
              THEN ListInsert(s1, nextNodeIt, [val |-> newVal, keys |-> {}])
              ELSE s1
        s3 == [KeysInsert(s2, nextNodeIt, key) EXCEPT !.k2n = MapPut(@, key, nextNodeIt)]
    IN EraseIfEmpty(s3, nodeIt)

\* mutant: the vacated node is never removed
stepToPrev_keepOld(s1, key, newVal, nodeIt) ==
    LET fresh == nodeIt = 1 \/ s1.nl[nodeIt - 1].val # newVal
        s2 == IF fresh
              THEN ListInsert(s1, nodeIt, [val |-> newVal, keys |-> {}])
              ELSE s1
        prevNodeIt == IF fresh THEN nodeIt ELSE nodeIt - 1
    IN [KeysInsert(s2, prevNodeIt, key) EXCEPT !.k2n = MapPut(@, key, prevNodeIt)]

\* increment()/decrement(), else branch: use or create the previous node
stepToPrev(s1, key, newVal, nodeIt) ==
    LET fresh == nodeIt = 1 \/ s1.nl[nodeIt - 1].val # newVal
        s2 == IF fresh
              THEN ListInsert(s1, nodeIt, [val |-> newVal, keys |-> {}])
              ELSE s1
        prevNodeIt == IF fresh THEN nodeIt ELSE nodeIt - 1
        s3 == [KeysInsert(s2, prevNodeIt, key) EXCEPT !.k2n = MapPut(@, key, prevNodeIt)]
    IN EraseIfEmpty(s3, IF fresh THEN nodeIt + 1 ELSE nodeIt)

\* the common head of increment(), decrement() and emplace():
\* nodeIt = keyToNode_[key]; nodeIt->keys.erase(key); keyToNode_.erase(key);
detach(st, key) ==
    [KeysErase(st, st.k2n[key], key) EXCEPT !.k2n = MapErase(@, key)]

\* priority_map::increment(key)
increment(st, key) ==
    IF key \notin DOMAIN st.k2n
    THEN Undefined([st EXCEPT !.k2n = MapPut(@, key, 0)])
    ELSE IF ~Deref(st.nl, st.k2n[key]) THEN Undefined(st)
    ELSE LET nodeIt == st.k2n[key]
             oldVal == st.nl[nodeIt].val
             newVal == oldVal + 1
         IN IF comp_(oldVal, newVal)
            THEN stepToNext(detach(st, key), key, newVal, nodeIt)
            ELSE stepToPrev(detach(st, key), key, newVal, nodeIt)

\* priority_map::decrement(key)
decrement(st, key) ==
    IF key \notin DOMAIN st.k2n
    THEN Undefined([st EXCEPT !.k2n = MapPut(@, key, 0)])
    ELSE IF ~Deref(st.nl, st.k2n[key]) THEN Undefined(st)
    ELSE LET nodeIt == st.k2n[key]
             oldVal == st.nl[nodeIt].val
             newVal == oldVal - 1
         IN IF comp_(oldVal, newVal)
            THEN stepToNext(detach(st, key), key, newVal, nodeIt)
            ELSE stepToPrev(detach(st, key), key, newVal, nodeIt)

\* priority_map::emplace(key, val)
emplace(st, key, val) ==
    IF key \notin DOMAIN st.k2n
    THEN Undefined([st EXCEPT !.k2n = MapPut(@, key, 0)])
    ELSE IF ~Deref(st.nl, st.k2n[key]) THEN Undefined(st)
    ELSE LET nodeIt == st.k2n[key]
             s1 == detach(st, key)
             ip == FindIf(Hits(NodeVals(s1.nl), ~comp_(0, 1), val), 1, Len(s1.nl))
             merge == ip # Len(s1.nl) + 1 /\ s1.nl[ip].val = val
             s2 == IF merge THEN KeysInsert(s1, ip, key)
                   ELSE ListInsert(s1, ip, [val |-> val, keys |-> {key}])
             s3 == [s2 EXCEPT !.k2n = MapPut(@, key, ip)]
             old2 == IF ~merge /\ nodeIt >= ip THEN nodeIt + 1 ELSE nodeIt
         IN EraseIfEmpty(s3, old2)

\* operator[], std::greater branch: reverse search for the 0 node
subscriptMax(st, key) ==
    LET rip == RFindIf(Hits(NodeVals(st.nl), FALSE, 0), Len(st.nl) + 1)
    IN IF rip # 1 /\ st.nl[rip - 1].val = 0
       THEN [KeysInsert(st, rip - 1, key) EXCEPT !.k2n = MapPut(@, key, rip)]
       ELSE IF rip = 1
       THEN [ListInsert(st, 1, [val |-> 0, keys |-> {key}])
                EXCEPT !.k2n = MapPut(@, key, 1)]
       ELSE [ListInsert(st, rip, [val |-> 0, keys |-> {key}])
                EXCEPT !.k2n = MapPut(@, key, rip)]

\* operator[], std::less branch: forward search for the 0 node
subscriptMin(st, key) ==
    LET ip == FindIf(Hits(NodeVals(st.nl), FALSE, 0), 1, Len(st.nl))
        merge == ip # Len(st.nl) + 1 /\ st.nl[ip].val = 0
        s2 == IF merge THEN KeysInsert(st, ip, key)
              ELSE ListInsert(st, ip, [val |-> 0, keys |-> {key}])
    IN [s2 EXCEPT !.k2n = MapPut(@, key, ip)]

\* priority_map::operator[](key) of the header
hdrSubscript(st, key) ==
    IF key \notin DOMAIN st.k2n
    THEN (IF comp_(0, 1) THEN subscriptMin(st, key) ELSE subscriptMax(st, key))
    ELSE st

\* a read through the proxy dereferences keyToNode_[k]
ReadUndefined(s, k) == k \in DOMAIN s.k2n /\ ~Deref(s.nl, s.k2n[k])

\* The header is followed up to the first state in which its structure is
\* corrupted; what the program computes from a corrupted structure is not
\* explored.
HdrRunning == Running /\ Consistent(St)

\* ValType v = pmap[k];   (an undefined read yields any value)
HdrRead(k) ==
    /\ HdrRunning
    /\ LET s == hdrSubscript(St, k)
       IN /\ Commit(IF ReadUndefined(s, k) THEN Undefined(s) ELSE s)
          /\ \E v \in Vals :
                /\ ~ReadUndefined(s, k) => v = getVal(s, k)
                /\ ret' = Ret("read", k, v, "none", Absent(k))
    /\ ref' = MapPut(ref, k, RefVal(k))
    /\ Frozen

\* ++pmap[k];
HdrPreInc(k) ==
    /\ HdrRunning
    /\ RefVal(k) + 1 <= MaxVal
    /\ LET s == hdrSubscript(St, k)
       IN /\ ReadVal(s, k) + 1 <= MaxVal
          /\ Commit(increment(s, k))
    /\ ret' = Ret("inc", k, 0, "none", Absent(k))
    /\ ref' = MapPut(ref, k, RefVal(k) + 1)
    /\ Frozen

\* --pmap[k];
HdrPreDec(k) ==
    /\ HdrRunning
    /\ RefVal(k) - 1 >= 0 - MaxVal
    /\ LET s == hdrSubscript(St, k)
       IN /\ ReadVal(s, k) - 1 >= 0 - MaxVal
          /\ Commit(decrement(s, k))
    /\ ret' = Ret("dec", k, 0, "none", Absent(k))
    /\ ref' = MapPut(ref, k, RefVal(k) - 1)
    /\ Frozen

\* pmap[k] = v;
HdrAssign(k, v) ==
    /\ HdrRunning
    /\ Commit(emplace(hdrSubscript(St, k), k, v))
    /\ ret' = Ret("assign", k, v, "none", Absent(k))
    /\ ref' = MapPut(ref, k, v)
    /\ Frozen

HdrTop == HdrRunning /\ Top
HdrPop == HdrRunning /\ Pop

NextHdr ==
    \/ \E k \in Keys : HdrRead(k)
    \/ \E k \in Keys : HdrPreInc(k)
    \/ \E k \in Keys : HdrPreDec(k)
    \/ \E k \in Keys, v \in Vals : HdrAssign(k, v)
    \/ HdrTop
    \/ HdrPop

SpecHdr == Init /\ [][NextHdr]_vars

\* ---------------------------------- one step from any consistent state
\* the values of a set in the order of Compare
Ordered(S) ==
    IF comp_(0, 1) THEN Ascending(S)
    ELSE [i \in 1..Cardinality(S) |-> Ascending(S)[Cardinality(S) + 1 - i]]

\* the consistent structure that holds the key/value pairs of the map m
ListOf(m) ==
    LET vs == Ordered({m[k] : k \in DOMAIN m})
    IN [p \in 1..Len(vs) |-> [val |-> vs[p], keys |-> {k \in DOMAIN m : m[k] = vs[p]}]]

IndexOf(m) ==
    [k \in DOMAIN m |-> CHOOSE p \in 1..Len(ListOf(m)) : ListOf(m)[p].val = m[k]]

\* any state with strictly sorted nodes, no empty node and a consistent index
InitStep ==
    /\ comp \in {"greater", "less"}
    /\ hashOrd \in HashOrders
    /\ ref \in UNION {[S -> Vals] : S \in SUBSET Keys}
    /\ nodeList_ = ListOf(ref)
    /\ keyToNode_ = IndexOf(ref)
    /\ vals_ = <<>>
    /\ keys_ = <<>>
    /\ valToKeys_ = <<>>
    /\ ub = FALSE
    /\ ret = Ret("init", 0, 0, "none", FALSE)
    /\ mode = "run"
    /\ drainKeys = {}
    /\ drained = <<>>
    /\ graph = <<>>
    /\ pc = "off"
    /\ curU = 0
    /\ restV = <<>>
    /\ topological = <<>>
    /\ proxy = [key |-> 0, new |-> FALSE]

\* increment(k) of a present key
StepInc(k) ==
    /\ Running
    /\ k \in DOMAIN keyToNode_
    /\ RefVal(k) + 1 <= MaxVal
    /\ Commit(increment(St, k))
    /\ ret' = Ret("inc", k, RefVal(k) + 1, "none", FALSE)
    /\ ref' = MapPut(ref, k, RefVal(k) + 1)
    /\ Frozen

\* decrement(k) of a present key
StepDec(k) ==
    /\ Running
    /\ k \in DOMAIN keyToNode_
    /\ RefVal(k) - 1 >= 0 - MaxVal
    /\ Commit(decrement(St, k))
    /\ ret' = Ret("dec", k, RefVal(k) - 1, "none", FALSE)
    /\ ref' = MapPut(ref, k, RefVal(k) - 1)
    /\ Frozen

NextStep == (\E k \in Keys : StepInc(k)) \/ (\E k \in Keys : StepDec(k))

SpecStep == InitStep /\ [][NextStep]_vars

\* ---------------------- ValType an unsigned integer type of Width bits
UVals == 0..(2^Width - 1)

\* the conversion of an arithmetic result to the unsigned ValType
Wrap(v) == v % (2^Width)

\* priority_map::increment(key), ValType newVal = oldVal + 1 in unsigned ValType
uIncrement(st, key) ==
    IF key \notin DOMAIN st.k2n
    THEN Undefined([st EXCEPT !.k2n = MapPut(@, key, 0)])
    ELSE IF ~Deref(st.nl, st.k2n[key]) THEN Undefined(st)
    ELSE LET nodeIt == st.k2n[key]
             oldVal == st.nl[nodeIt].val
             newVal == Wrap(oldVal + 1)
         IN IF comp_(oldVal, newVal)
            THEN stepToNext(detach(st, key), key, newVal, nodeIt)
            ELSE stepToPrev(detach(st, key), key, newVal, nodeIt)

\* priority_map::decrement(key), ValType newVal = oldVal - 1 in unsigned ValType
uDecrement(st, key) ==
    IF key \notin DOMAIN st.k2n
    THEN Undefined([st EXCEPT !.k2n = MapPut(@, key, 0)])
    ELSE IF ~Deref(st.nl, st.k2n[key]) THEN Undefined(st)
    ELSE LET nodeIt == st.k2n[key]
             oldVal == st.nl[nodeIt].val
             newVal == Wrap(oldVal - 1)
         IN IF comp_(oldVal, newVal)
            THEN stepToNext(detach(st, key), key, newVal, nodeIt)
            ELSE stepToPrev(detach(st, key), key, newVal, nodeIt)

\* any consistent state with unsigned values
InitUnsigned ==
    /\ comp \in {"greater", "less"}
    /\ hashOrd \in HashOrders
    /\ ref \in UNION {[S -> UVals] : S \in SUBSET Keys}
    /\ nodeList_ = ListOf(ref)
    /\ keyToNode_ = IndexOf(ref)
    /\ vals_ = <<>>
    /\ keys_ = <<>>
    /\ valToKeys_ = <<>>
    /\ ub = FALSE
    /\ ret = Ret("init", 0, 0, "none", FALSE)
    /\ mode = "run"
    /\ drainKeys = {}
    /\ drained = <<>>
    /\ graph = <<>>
    /\ pc = "off"
    /\ curU = 0
    /\ restV = <<>>
    /\ topological = <<>>
    /\ proxy = [key |-> 0, new |-> FALSE]

\* ++pmap[k]; for a present key
UInc(k) ==
    /\ Running
    /\ k \in DOMAIN keyToNode_
    /\ Commit(uIncrement(St, k))
    /\ ret' = Ret("inc", k, Wrap(RefVal(k) + 1), "none", FALSE)
    /\ ref' = MapPut(ref, k, Wrap(RefVal(k) + 1))
    /\ Frozen

\* --pmap[k]; for a present key
UDec(k) ==
    /\ Running
    /\ k \in DOMAIN keyToNode_
    /\ Commit(uDecrement(St, k))
    /\ ret' = Ret("dec", k, Wrap(RefVal(k) - 1), "none", FALSE)
    /\ ref' = MapPut(ref, k, Wrap(RefVal(k) - 1))
    /\ Frozen

NextUnsigned == (\E k \in Keys : UInc(k)) \/ (\E k \in Keys : UDec(k))

SpecUnsigned == InitUnsigned /\ [][NextUnsigned]_vars

\* the nodes the std::find_if of emplace(key, val) applies its predicate to,
\* as positions of the list: from begin() up to the first hit
emplaceScan(st, key, val) ==
    1..Min({FindIf(Hits(NodeVals(st.nl), ~comp_(0, 1), val), 1, Len(st.nl)), Len(st.nl)})

\* pmap[k] = v; for a present key
StepAssign(k, v) ==
    /\ Running
    /\ k \in DOMAIN keyToNode_
    /\ Commit(emplace(St, k, v))
    /\ ret' = Ret("assign", k, v, "none", FALSE)
    /\ ref' = MapPut(ref, k, v)
    /\ Frozen

NextEmplace == \E k \in Keys, v \in Vals : StepAssign(k, v)

SpecEmplace == InitStep /\ [][NextEmplace]_vars

\* ======================================================================
\* The value-list variant (vals_ + keys_ + valToKeys_, with at())
\* A state is [nl |-> vals_, k2n |-> keys_, v2k |-> valToKeys_, ub |-> ub].
\* ======================================================================

\* valToKeys_[v]: operator[] creates an empty set for a value that has none
v2kTouch(st, v) ==
    IF v \in DOMAIN st.v2k THEN st ELSE [st EXCEPT !.v2k = MapPut(@, v, {})]

\* mutant: the key is not taken out of the set of its old value
v2kErase_keep(st, v, key) == v2kTouch(st, v)

\* valToKeys_[v].erase(key)
v2kErase(st, v, key) ==
    LET s == v2kTouch(st, v) IN [s EXCEPT !.v2k[v] = @ \ {key}]

\* valToKeys_[v].insert(key)
v2kInsert(st, v, key) ==
    LET s == v2kTouch(st, v) IN [s EXCEPT !.v2k[v] = @ \cup {key}]

\* mutant: a value whose key set became empty stays in vals_ and valToKeys_
vEraseIfEmpty_never(st, v, oldIt) == v2kTouch(st, v)

\* if (valToKeys_[v].empty()) { valToKeys_.erase(*oldIt); vals_.erase(oldIt); }
vEraseIfEmpty(st, v, oldIt) ==
    LET s == v2kTouch(st, v)
    IN IF s.v2k[v] = {}
       THEN ListErase([s EXCEPT !.v2k = MapErase(@, s.nl[oldIt])], oldIt)
       ELSE s

\* update() of the value-list variant, branch comp_(oldVal, newVal)
vUpdateTowardsEnd(s1, key, newVal, oldIt) ==
    LET ip == FindIf(Hits(s1.nl, comp_(1, 0), newVal), oldIt, Len(s1.nl))
        fresh == ip = Len(s1.nl) + 1 \/ s1.nl[ip] # newVal
        s2 == IF fresh THEN ListInsert(s1, ip, newVal) ELSE s1
        old2 == IF fresh /\ oldIt >= ip THEN oldIt + 1 ELSE oldIt
    IN [nxt |-> [s2 EXCEPT !.k2n = MapPut(@, key, ip)], old |-> old2]

\* update() of the value-list variant, else branch (reverse iterators); after
\* vals_.insert(insertionPoint.base(), newVal) the base of insertionPoint
\* has moved one up, and keys_[key] is set to std::next(insertionPoint).base()
vUpdateTowardsBegin(s1, key, newVal, oldIt) ==
    LET rip == RFindIf(Hits(s1.nl, comp_(0, 1), newVal), oldIt)
        fresh == rip = 1 \/ s1.nl[rip - 1] # newVal
        s2 == IF fresh THEN ListInsert(s1, rip, newVal) ELSE s1
        rip2 == IF fresh THEN rip + 1 ELSE rip
        old2 == IF fresh /\ oldIt >= rip THEN oldIt + 1 ELSE oldIt
    IN [nxt |-> [s2 EXCEPT !.k2n = MapPut(@, key, rip2 - 1)], old |-> old2]

\* priority_map::update(key, newVal) of the value-list variant
vUpdate(st, key, newVal) ==
    IF key \notin DOMAIN st.k2n
    THEN Undefined([st EXCEPT !.k2n = MapPut(@, key, 0)])
    ELSE IF ~Deref(st.nl, st.k2n[key]) THEN Undefined(st)
    ELSE LET oldIt == st.k2n[key]
             oldVal == st.nl[oldIt]
             s0 == [st EXCEPT !.k2n = MapErase(@, key)]
             s1 == v2kInsert(v2kErase(s0, oldVal, key), newVal, key)
             r == IF comp_(oldVal, newVal)
                  THEN vUpdateTowardsEnd(s1, key, newVal, oldIt)
                  ELSE vUpdateTowardsBegin(s1, key, newVal, oldIt)
         IN IF oldVal = newVal THEN st
            ELSE vEraseIfEmpty(r.nxt, oldVal, r.old)

\* insert() of the value-list variant, minHeap branch
vInsertMin(st, key) ==
    LET ip == FindIf(Hits(st.nl, FALSE, 0), 1, Len(st.nl))
        fresh == ip = Len(st.nl) + 1 \/ st.nl[ip] # 0
        s2 == IF fresh THEN ListInsert(st, ip, 0) ELSE st
    IN [s2 EXCEPT !.k2n = MapPut(@, key, ip)]

\* insert() of the value-list variant, maxHeap branch
vInsertMax(st, key) ==
    LET rip == RFindIf(Hits(st.nl, FALSE, 0), Len(st.nl) + 1)
        fresh == rip = 1 \/ st.nl[rip - 1] # 0
        s2 == IF fresh THEN ListInsert(st, rip, 0) ELSE st
    IN [s2 EXCEPT !.k2n = MapPut(@, key, IF fresh THEN rip ELSE rip - 1)]

\* priority_map::insert(key, newVal) of the value-list variant
vInsert(st, key, newVal) ==
    LET s0 == v2kInsert(st, 0, key)
        s1 == IF key \notin DOMAIN st.k2n
              THEN (IF comp_(0, 1) THEN vInsertMin(s0, key) ELSE vInsertMax(s0, key))
              ELSE st
    IN vUpdate(s1, key, newVal)

\* priority_map::operator[](key) of the value-list variant
vSubscript(st, key) ==
    IF key \notin DOMAIN st.k2n THEN vInsert(st, key, 0) ELSE st

\* getVal(key) = *(keys_.at(key)) of a key of keys_
vGetVal(st, key) == st.nl[st.k2n[key]]

\* Proxy::operator++ / operator-- of the value-list variant
vProxyStep(st, key, d) ==
    IF key \notin DOMAIN st.k2n THEN st
    ELSE IF ~Deref(st.nl, st.k2n[key]) THEN Undefined(st)
    ELSE vUpdate(st, key, vGetVal(st, key) + d)

\* priority_map::erase(key) of the value-list variant
vErase(st, key) ==
    IF key \in DOMAIN st.k2n
    THEN IF ~Deref(st.nl, st.k2n[key]) THEN Undefined(st)
         ELSE LET oldIt == st.k2n[key]
                  s1 == v2kErase(st, st.nl[oldIt], key)
                  s2 == vEraseIfEmpty(s1, s1.nl[oldIt], oldIt)
              IN [s2 EXCEPT !.k2n = MapErase(@, key)]
    ELSE st

\* what top() of the value-list variant throws (valToKeys_.at(val) throws
\* std::out_of_range for a value without an entry)
vTopThrows(st) ==
    IF st.nl = <<>> THEN "out_of_range"
    ELSE IF st.nl[1] \notin DOMAIN st.v2k THEN "out_of_range"
    ELSE IF st.v2k[st.nl[1]] = {} THEN "logic_error"
    ELSE "none"

\* top() of the value-list variant when it does not throw
vTop(st) == [key |-> setBegin(st.v2k[st.nl[1]]), val |-> st.nl[1]]

\* what pop() of the value-list variant throws (valToKeys_[*oldIt] creates)
vPopThrows(st) ==
    IF st.nl = <<>> THEN "out_of_range"
    ELSE IF v2kTouch(st, st.nl[1]).v2k[st.nl[1]] = {} THEN "logic_error"
    ELSE "none"

\* pop() of the value-list variant
vPop(st) ==
    IF st.nl = <<>> THEN st
    ELSE IF vPopThrows(st) # "none" THEN v2kTouch(st, st.nl[1])
    ELSE LET key == setBegin(st.v2k[st.nl[1]])
             s1 == [v2kErase(st, st.nl[1], key) EXCEPT !.k2n = MapErase(@, key)]
         IN vEraseIfEmpty(s1, s1.nl[1], 1)

\* mutant: at() returns a default value for a missing key
at_default(st, key) ==
    IF key \notin DOMAIN st.k2n THEN [exc |-> "none", val |-> 0]
    ELSE [exc |-> "none", val |-> st.nl[st.k2n[key]]]

\* priority_map::at(key): the exception and the value returned
at(st, key) ==
    IF key \notin DOMAIN st.k2n THEN [exc |-> "out_of_range", val |-> 0]
    ELSE [exc |-> "none", val |-> st.nl[st.k2n[key]]]

VSt == [nl |-> vals_, k2n |-> keys_, v2k |-> valToKeys_, ub |-> ub]

VCommit(s) ==
    /\ vals_' = s.nl
    /\ keys_' = s.k2n
    /\ valToKeys_' = s.v2k
    /\ ub' = s.ub

VFrozen ==
    /\ UNCHANGED <<comp, hashOrd, mode, drainKeys, drained, nodeList_, keyToNode_>>
    /\ UNCHANGED topSortVars
    /\ UNCHANGED proxy

VAbsent(k) == k \notin DOMAIN keys_

\* ValType v = pmap[k];
VRead(k) ==
    /\ Running
    /\ LET s == vSubscript(VSt, k)
       IN /\ VCommit(IF ReadUndefined(s, k) THEN Undefined(s) ELSE s)
          /\ \E v \in Vals :
                /\ ~ReadUndefined(s, k) => v = vGetVal(s, k)
                /\ ret' = Ret("read", k, v, "none", VAbsent(k))
    /\ ref' = MapPut(ref, k, RefVal(k))
    /\ VFrozen

\* ++pmap[k];
VPreInc(k) ==
    /\ Running
    /\ RefVal(k) + 1 <= MaxVal
    /\ VCommit(vProxyStep(vSubscript(VSt, k), k, 1))
    /\ ret' = Ret("inc", k, 0, "none", VAbsent(k))
    /\ ref' = MapPut(ref, k, RefVal(k) + 1)
    /\ VFrozen

\* --pmap[k];
VPreDec(k) ==
    /\ Running
    /\ RefVal(k) - 1 >= 0 - MaxVal
    /\ VCommit(vProxyStep(vSubscript(VSt, k), k, 0 - 1))
    /\ ret' = Ret("dec", k, 0, "none", VAbsent(k))
    /\ ref' = MapPut(ref, k, RefVal(k) - 1)
    /\ VFrozen

\* pmap[k] = v;
VAssign(k, v) ==
    /\ Running
    /\ VCommit(vUpdate(vSubscript(VSt, k), k, v))
    /\ ret' = Ret("assign", k, v, "none", VAbsent(k))
    /\ ref' = MapPut(ref, k, v)
    /\ VFrozen

\* pmap.erase(k);
VErase(k) ==
    /\ Running
    /\ VCommit(vErase(VSt, k))
    /\ ret' = Ret("erase", k, IF VAbsent(k) THEN 0 ELSE 1, "none", VAbsent(k))
    /\ ref' = MapErase(ref, k)
    /\ VFrozen

\* pmap.top();
VTop ==
    /\ Running
    /\ ret' = IF vTopThrows(VSt) = "none"
              THEN Ret("top", vTop(VSt).key, vTop(VSt).val, "none", FALSE)
              ELSE Ret("top", 0, 0, vTopThrows(VSt), FALSE)
    /\ UNCHANGED <<vals_, keys_, valToKeys_, ub, ref>>
    /\ VFrozen

\* pmap.pop();
VPop ==
    /\ Running
    /\ VCommit(vPop(VSt))
    /\ ret' = IF vPopThrows(VSt) = "none"
              THEN Ret("pop", vTop(VSt).key, 0, "none", FALSE)
              ELSE Ret("pop", 0, 0, vPopThrows(VSt), FALSE)
    /\ ref' = IF vPopThrows(VSt) = "none" THEN MapErase(ref, vTop(VSt).key) ELSE ref
    /\ VFrozen

\* pmap.at(k);
VAt(k) ==
    /\ Running
    /\ IF k \in DOMAIN keys_ /\ ~Deref(vals_, keys_[k])
       THEN /\ ub' = TRUE
            /\ \E v \in Vals : ret' = Ret("at", k, v, "none", FALSE)
       ELSE /\ ub' = ub
            /\ ret' = Ret("at", k, at(VSt, k).val, at(VSt, k).exc, FALSE)
    /\ UNCHANGED <<vals_, keys_, valToKeys_, ref>>
    /\ VFrozen

NextVal ==
    \/ \E k \in Keys : VRead(k)
    \/ \E k \in Keys : VPreInc(k)
    \/ \E k \in Keys : VPreDec(k)
    \/ \E k \in Keys, v \in Vals : VAssign(k, v)
    \/ \E k \in Keys : VErase(k)
    \/ \E k \in Keys : VAt(k)
    \/ VTop
    \/ VPop

SpecVal == Init /\ [][NextVal]_vars

\* ======================================================================
\* Properties of the node-list variant with erase
\* ======================================================================
Size == Cardinality(DOMAIN keyToNode_)
NodeOf(k) == nodeList_[keyToNode_[k]]

\* the best value of the reference map under Compare
RefExtreme ==
    LET V == {ref[k] : k \in DOMAIN ref}
    IN IF comp = "less" THEN Min(V) ELSE Max(V)

\* C1: every key of keyToNode_ refers to a node of nodeList_ that holds the
\* key, and every key of a node is mapped by keyToNode_ to exactly that node.
C1_Bijection == ~ub /\ Bijection(St)

\* an erase() has just removed a present key and left keys in two nodes
C1_Witness ==
    /\ ret.op = "erase" /\ ret.val = 1
    /\ Len(nodeList_) >= 2
    /\ Size >= 2

\* C2: adjacent nodes A then B satisfy Compare(A.val, B.val).
C2_Sorted == Sorted(nodeList_)

\* operator[] has just created the 0 node between a negative and a positive node
C2_Witness ==
    /\ ret.op = "read" /\ ret.new
    /\ Len(nodeList_) = 3
    /\ nodeList_[2] = [val |-> 0, keys |-> {ret.key}]
    /\ nodeList_[1].val * nodeList_[3].val < 0

\* C3: no two nodes hold the same value and no node has an empty key set.
C3_NoDupNoEmpty == NoEmpty(nodeList_) /\ NoDup(nodeList_)

\* an assignment has just moved a key into the node of another key, and the
\* node it left is gone
C3_Witness ==
    /\ ret.op = "assign" /\ ~ret.new
    /\ ret.key \in DOMAIN keyToNode_
    /\ Cardinality(NodeOf(ret.key).keys) >= 2
    /\ Len(nodeList_) = 1
    /\ NodeOf(ret.key).val # 0

\* C4: with at least one key present, top() returns the extreme value of the
\* reference map.
C4_TopIsExtreme ==
    DOMAIN ref # {} =>
        /\ topThrows(St) = "none"
        /\ top(St).val = RefExtreme

\* top() has just answered with three keys present at three different values
C4_Witness ==
    /\ ret.op = "top" /\ ret.exc = "none"
    /\ Len(nodeList_) = 3
    /\ ret.val = RefExtreme

\* the operation of the step targets key k
Targets(k) ==
    /\ ret'.op \in {"inc", "dec", "assign", "erase", "pop", "toppop"}
    /\ ret'.key = k

\* C6: after pmap[k] = v a read of pmap[k] returns v, and a present key keeps
\* its value over every step that is not a ++, --, assignment, erase or pop
\* of that key.
C6_RoundTrip ==
    [][ /\ ret'.op = "assign" =>
              ReadVal(subscript(St, ret.key), ret.key)' = ret'.val
        /\ \A k \in DOMAIN keyToNode_ :
              ~Targets(k) =>
                  /\ k \in DOMAIN keyToNode_'
                  /\ ReadVal(St, k)' = ReadVal(St, k) ]_vars

\* an absent key has just been assigned a non-default value next to other keys
C6_Witness ==
    /\ ret.op = "assign" /\ ret.new /\ ret.val # 0
    /\ Size >= 3
    /\ ReadVal(St, ret.key) = ret.val

\* C8: a drain loop over N keys makes exactly N successful top()/pop() pairs,
\* each removing one key; the keys returned are distinct and are the keys that
\* were present; the values never improve under Compare; afterwards the map
\* is empty and top()/pop() throw std::out_of_range.
C8_PopDrains ==
    mode = "drain" =>
        LET N == Cardinality(drainKeys)
            n == Len(drained)
        IN /\ n + Size = N
           /\ \A i, j \in 1..n : i # j => drained[i].key # drained[j].key
           /\ {drained[i].key : i \in 1..n} = drainKeys \ DOMAIN keyToNode_
           /\ DOMAIN keyToNode_ \subseteq drainKeys
           /\ \A i, j \in 1..n : i < j => ~comp_(drained[j].val, drained[i].val)
           /\ n < N => topThrows(St) = "none" /\ ret.exc = "none"
           /\ n = N => /\ topThrows(St) = "out_of_range"
                       /\ DOMAIN keyToNode_ = {}
           /\ ret.exc \in {"none", "out_of_range"}

\* three keys at two values were drained and the fourth top() has thrown
C8_Witness ==
    /\ mode = "drain"
    /\ Len(drained) = 3
    /\ ret.op = "toppop" /\ ret.exc = "out_of_range"
    /\ drained[1].val = drained[2].val
    /\ drained[2].val # drained[3].val

\* C9: with no key present top() and pop() throw std::out_of_range and change
\* nothing; with a key present neither throws.
C9_EmptyThrows ==
    [][ ret'.op \in {"top", "pop", "toppop"} =>
            /\ DOMAIN ref = {} =>
                  /\ ret'.exc = "out_of_range"
                  /\ UNCHANGED <<nodeList_, keyToNode_>>
            /\ DOMAIN ref # {} => ret'.exc = "none" ]_vars

\* pop() has thrown on a map that was emptied by pops
C9_Witness ==
    /\ mode = "drain"
    /\ Len(drained) >= 2
    /\ ret.exc = "out_of_range"
    /\ nodeList_ = <<>> /\ keyToNode_ = <<>>

\* ======================================================================
\* Properties of the header with increment/decrement/emplace
\* ======================================================================

\* C5: operator[] on an absent key creates it with value 0: the key is in the
\* key set of the node with value 0, keyToNode_[k] refers to that node, the
\* list stays sorted and a read through the proxy yields 0.
C5_DefaultCreatesZero ==
    (ret.op = "read" /\ ret.new) =>
        /\ ~ub
        /\ ret.val = 0
        /\ Sorted(nodeList_)
        /\ \E p \in 1..Len(nodeList_) :
              /\ nodeList_[p].val = 0
              /\ ret.key \in nodeList_[p].keys
              /\ keyToNode_[ret.key] = p

\* C7: on a consistent state increment(k) yields the node sequence and key
\* index of emplace(k, getVal(k) + 1), and decrement(k) those of
\* emplace(k, getVal(k) - 1).
C7_StepIsEmplace ==
    Consistent(St) =>
        \A k \in DOMAIN keyToNode_ :
            /\ getVal(St, k) + 1 <= MaxVal =>
                  increment(St, k) = emplace(St, k, getVal(St, k) + 1)
            /\ getVal(St, k) - 1 >= 0 - MaxVal =>
                  decrement(St, k) = emplace(St, k, getVal(St, k) - 1)

\* a ++ has just moved a key out of a shared node into a node of its own, in
\* a consistent structure of three nodes
C7_Witness ==
    /\ ret.op = "inc" /\ ~ret.new
    /\ Consistent(St)
    /\ Len(nodeList_) = 3
    /\ ret.key \in DOMAIN keyToNode_
    /\ NodeOf(ret.key).keys = {ret.key}

\* ======================================================================
\* Properties of the value-list variant
\* ======================================================================

\* C10: at(key) returns the current value of a present key and throws
\* std::out_of_range for a key that is not present; it creates no key and
\* changes neither the value list nor the indexes.
C10_AtPure ==
    [][ ret'.op = "at" =>
            /\ UNCHANGED <<vals_, keys_, valToKeys_, ub>>
            /\ ret'.key \in DOMAIN ref =>
                  ret'.exc = "none" /\ ret'.val = ref[ret'.key]
            /\ ret'.key \notin DOMAIN ref => ret'.exc = "out_of_range" ]_vars

\* at() has just thrown for an absent key while two values are listed
C10_Witness ==
    /\ ret.op = "at" /\ ret.exc = "out_of_range"
    /\ ret.key \notin DOMAIN keys_
    /\ Len(vals_) >= 2

\* ======================================================================
\* Further properties of the node-list variant with erase
\* ======================================================================

\* C11: erase(key) never throws; for a present key it returns 1, removes the
\* key from its node and from the index and removes the node when it became
\* empty; for an absent key it returns 0 and changes nothing; afterwards
\* count(key) is 0.
C11_Erase ==
    [][ ret'.op = "erase" =>
          LET k == ret'.key IN
            /\ ret'.exc = "none"
            /\ ~ub'
            /\ count(St', k) = 0
            /\ IF k \in DOMAIN ref
               THEN /\ ret'.val = 1
                    /\ nodeList_' =
                          IF NodeOf(k).keys = {k}
                          THEN RemoveAt(nodeList_, keyToNode_[k])
                          ELSE [nodeList_ EXCEPT ![keyToNode_[k]].keys = @ \ {k}]
                    /\ DOMAIN keyToNode_' = (DOMAIN keyToNode_) \ {k}
                    /\ \A j \in DOMAIN keyToNode_' :
                          nodeList_'[keyToNode_'[j]].val = NodeOf(j).val
               ELSE /\ ret'.val = 0
                    /\ UNCHANGED <<nodeList_, keyToNode_>> ]_vars

\* erase() has just removed a present key and two keys with different values
\* remain
C11_Witness ==
    /\ ret.op = "erase" /\ ret.val = 1 /\ ret.exc = "none"
    /\ ret.key \notin DOMAIN keyToNode_
    /\ Len(nodeList_) = 2
    /\ Size = 2

\* the values of the reference map that no other value precedes under Compare
RefFirst == {v \in {ref[k] : k \in DOMAIN ref} :
               \A k \in DOMAIN ref : ~comp_(ref[k], v)}

\* C13: with a user-supplied strict total order that is neither numeric < nor
\* numeric > (absolute value, ties broken by sign) adjacent nodes A then B
\* satisfy Compare(A.val, B.val) and a successful top() returns the value that
\* is first under Compare among the present keys.
C13_CustomOrder ==
    /\ Sorted(nodeList_)
    /\ ret.op = "top" /\ ret.exc = "none" /\ ~ub => ret.val \in RefFirst

\* ======================================================================
\* Properties of the topological sort driven by the node-list variant
\* ======================================================================

\* position of node a in the output, 0 when it has not been output
OutPos(a) ==
    IF \E i \in 1..Len(topological) : topological[i] = a
    THEN CHOOSE i \in 1..Len(topological) : topological[i] = a
    ELSE 0

TopSortSafe ==
    /\ ~ub
    /\ pc # "threw"
    /\ ret.op = "toppop" => ret.exc = "none" /\ ret.val = 0
    /\ ret.op \in {"inc", "dec"} => ~ret.new
    /\ \A i \in 1..Len(topological) : topological[i] \notin DOMAIN keyToNode_
    /\ \A i, j \in 1..Len(topological) : topological[i] = topological[j] => i = j
    /\ Len(topological) <= Len(graph)
    /\ \A e \in Edges(graph) :
          OutPos(e[2]) # 0 => OutPos(e[1]) # 0 /\ OutPos(e[1]) < OutPos(e[2])
    /\ pc = "done" =>
          /\ Len(topological) = Len(graph)
          /\ empty(St) /\ nodeList_ = <<>>

\* C12: on every directed acyclic graph the topological sort with a
\* min-structure observes value 0 at every top(), never creates a key again
\* after it was popped, and ends after exactly |V| iterations with the
\* structure empty and a valid topological order in the output.
C12_TopSort == []TopSortSafe /\ <>(pc = "done")

\* the program has finished on a graph in which a node with two predecessors
\* was decremented twice
C12_Witness ==
    /\ pc = "done"
    /\ Len(topological) = 3
    /\ \E v \in 1..Len(graph) : Cardinality({e \in Edges(graph) : e[2] = v}) = 2

\* ======================================================================
\* Frame and no-op properties of the node-list variant
\* ======================================================================

\* the keys stored in the nodes of a list
KeysIn(nl) == UNION {nl[p].keys : p \in 1..Len(nl)}

\* C14: a step changes neither the presence nor the value of a key it does
\* not target: a key disappears only by erase or pop of that key, appears only
\* by an access to that key, changes value only by ++, -- or assignment to that
\* key; and a successful pop() removes exactly one key and changes no value.
C14_Frame ==
    [][ /\ \A k \in Keys :
             /\ (k \in DOMAIN keyToNode_ /\ k \notin DOMAIN keyToNode_')
                   => ret'.op \in {"erase", "pop"} /\ ret'.key = k
             /\ (k \in KeysIn(nodeList_) /\ k \notin KeysIn(nodeList_'))
                   => ret'.op \in {"erase", "pop"} /\ ret'.key = k
             /\ (k \notin DOMAIN keyToNode_ /\ k \in DOMAIN keyToNode_')
                   => ret'.op \in {"read", "inc", "dec", "assign"} /\ ret'.key = k
             /\ (k \notin KeysIn(nodeList_) /\ k \in KeysIn(nodeList_'))
                   => ret'.op \in {"read", "inc", "dec", "assign"} /\ ret'.key = k
             /\ (k \in DOMAIN keyToNode_ /\ k \in DOMAIN keyToNode_'
                    /\ ReadVal(St', k) # ReadVal(St, k))
                   => ret'.op \in {"inc", "dec", "assign"} /\ ret'.key = k
        /\ (ret'.op = "pop" /\ ret'.exc = "none") =>
             /\ DOMAIN keyToNode_' \subseteq DOMAIN keyToNode_
             /\ Cardinality((DOMAIN keyToNode_) \ DOMAIN keyToNode_') = 1
             /\ ret'.key \notin DOMAIN keyToNode_'
             /\ \A k \in DOMAIN keyToNode_' : ReadVal(St', k) = ReadVal(St, k) ]_vars

\* pop() has just removed one key and two keys that share a node remain
C14_Witness ==
    /\ ret.op = "pop" /\ ret.exc = "none"
    /\ Size = 2
    /\ Len(nodeList_) = 1

\* C15: assigning to a present key the value it already holds changes neither
\* the node list (order, values, key sets) nor the index, also when the key is
\* the only key of its node.
C15_SameValueNoOp ==
    [][ (/\ ret'.op = "assign"
         /\ ret'.key \in DOMAIN ref
         /\ ref[ret'.key] = ret'.val)
        => /\ UNCHANGED <<nodeList_, keyToNode_>>
           /\ ~ub' ]_vars

\* an assignment to a present key has left it alone in a middle node holding
\* the assigned value
C15_Witness ==
    /\ ret.op = "assign" /\ ~ret.new
    /\ Len(nodeList_) = 3
    /\ NodeOf(ret.key) = [val |-> ret.val, keys |-> {ret.key}]
    /\ keyToNode_[ret.key] = 2

\* C16: operator[] on a present key changes nothing (value, node, size, node
\* list); on an absent key it grows size() by exactly 1; and size() never
\* grows in any other way.
C16_SubscriptPresent ==
    [][ /\ \A k \in Keys :
             IF k \in DOMAIN ref
             THEN subscript(St, k) = St
             ELSE /\ size(subscript(St, k)) = size(St) + 1
                  /\ k \in DOMAIN subscript(St, k).k2n
        /\ (ret'.op = "read" /\ ret'.key \in DOMAIN ref)
             => /\ UNCHANGED <<nodeList_, keyToNode_>>
                /\ ret'.val = ref[ret'.key]
        /\ (ret'.op \in {"read", "inc", "dec", "assign"} /\ ret'.key \notin DOMAIN ref)
             => size(St') = size(St) + 1
        /\ size(St') > size(St)
             => /\ size(St') = size(St) + 1
                /\ ret'.op \in {"read", "inc", "dec", "assign"}
                /\ ret'.key \notin DOMAIN ref ]_vars

\* a present key with a non-default value has just been read through
\* operator[] next to other keys
C16_Witness ==
    /\ ret.op = "read" /\ ~ret.new /\ ret.val # 0
    /\ ReadVal(St, ret.key) = ret.val
    /\ Size = 3 /\ Len(nodeList_) >= 2

\* the number of keys stored in the nodes of positions p..Len(nl)
RECURSIVE KeyCount(_, _)
KeyCount(nl, p) ==
    IF p > Len(nl) THEN 0 ELSE Cardinality(nl[p].keys) + KeyCount(nl, p + 1)

QueriesAgree ==
    /\ size(St) = Cardinality(DOMAIN ref)
    /\ size(St) = KeyCount(nodeList_, 1)
    /\ empty(St) <=> size(St) = 0
    /\ \A k \in Keys : count(St, k) = IF k \in DOMAIN ref THEN 1 ELSE 0
    /\ ret.op = "size" => ret.val = Cardinality(DOMAIN ref)
    /\ ret.op = "empty" => (ret.val = 1 <=> DOMAIN ref = {})
    /\ ret.op = "count" =>
          /\ ret.val = IF ret.key \in DOMAIN ref THEN 1 ELSE 0
          /\ ret.new => ret.key \notin DOMAIN keyToNode_

\* C17: size(), empty() and count(key) leave the structure unchanged and agree
\* with it: size() is the number of present keys and the sum of the nodes'
\* key-set sizes, empty() holds exactly when size() is 0, count(key) is 1 for a
\* present key and 0 for an absent one, which it does not create.
C17_Queries ==
    /\ []QueriesAgree
    /\ [][ret'.op \in {"size", "empty", "count"}
             => UNCHANGED <<nodeList_, keyToNode_, ub>>]_vars

\* count() of an absent key has just returned 0 while two nodes hold the
\* other keys
C17_Witness ==
    /\ ret.op = "count" /\ ret.val = 0 /\ ret.new
    /\ Size = MaxKey - 1
    /\ Len(nodeList_) = 2

\* C18: a successful top() changes nothing and returns (k, v) with v the value
\* of the first node and k a key of that node's key set, so a read of k yields
\* v; when exactly one key holds the extreme value top() returns that key; and
\* top() succeeds whenever a key is present.
C18_TopPure ==
    [][ ret'.op = "top" =>
          /\ UNCHANGED <<nodeList_, keyToNode_, ub>>
          /\ DOMAIN ref # {} => ret'.exc = "none"
          /\ ret'.exc = "none" =>
                /\ nodeList_ # <<>>
                /\ ret'.val = nodeList_[1].val
                /\ ret'.key \in nodeList_[1].keys
                /\ ReadVal(St, ret'.key) = ret'.val
                /\ ret'.key \in DOMAIN ref /\ ref[ret'.key] = ret'.val
                /\ \A k \in DOMAIN ref :
                      (\A j \in (DOMAIN ref) \ {k} : comp_(ref[k], ref[j]))
                          => ret'.key = k ]_vars

\* top() has just returned the only key of the first node, which is not the
\* first key of the hash order, while other nodes hold the other keys
C18_Witness ==
    /\ ret.op = "top" /\ ret.exc = "none"
    /\ Len(nodeList_) >= 2
    /\ nodeList_[1].keys = {ret.key}
    /\ ret.key # setBegin(DOMAIN keyToNode_)
    /\ Size = 3

\* ++pmap[k] followed by --pmap[k] (d = 1), or the reverse (d = -1)
StepAndBack(st, k, d) ==
    proxyStep(subscript(proxyStep(subscript(st, k), k, d), k), k, 0 - d)

\* C19: for a present key, ++ followed by -- and -- followed by ++ restore the
\* state exactly: the node list (values and key sets in order), every key's
\* value and the index are as before, whatever other keys and nodes exist.
C19_StepAndBack ==
    \A k \in DOMAIN keyToNode_ :
        /\ StepAndBack(St, k, 1) = St
        /\ StepAndBack(St, k, 0 - 1) = St

\* a present key has just been decremented and sits alone in the middle node,
\* between two nodes whose values differ by one from its own
C19_Witness ==
    /\ ret.op = "dec" /\ ~ret.new
    /\ Len(nodeList_) = 3
    /\ keyToNode_[ret.key] = 2
    /\ nodeList_[2].keys = {ret.key}
    /\ Abs(nodeList_[1].val - nodeList_[2].val) = 1
    /\ Abs(nodeList_[3].val - nodeList_[2].val) = 1

\* ======================================================================
\* Properties of a Proxy kept across other operations
\* ======================================================================

\* C20: a Proxy made by operator[](k) is bound to the key: whatever happened
\* to other keys and to k since, while k is present a read through the proxy
\* returns k's current value and ++, -- and assignment through it set k's
\* value (old value + 1, old value - 1, the assigned value) and leave every
\* other key alone.
C20_ProxyBoundToKey ==
    [][ (ret'.op \in {"pread", "pinc", "pdec", "passign"} /\ proxy.key \in DOMAIN ref)
        => /\ ret'.key = proxy.key
           /\ ret'.exc = "none"
           /\ ~ub'
           /\ DOMAIN keyToNode_' = DOMAIN keyToNode_
           /\ \A j \in (DOMAIN keyToNode_) \ {proxy.key} :
                 ReadVal(St', j) = ReadVal(St, j)
           /\ ret'.op = "pread" =>
                 /\ ret'.val = ref[proxy.key]
                 /\ UNCHANGED <<nodeList_, keyToNode_>>
           /\ ret'.op = "pinc" => ReadVal(St', proxy.key) = ref[proxy.key] + 1
           /\ ret'.op = "pdec" => ReadVal(St', proxy.key) = ref[proxy.key] - 1
           /\ ret'.op = "passign" => ReadVal(St', proxy.key) = ret'.val ]_vars

\* ++ through a proxy that was made for an absent key (value 0), after the key
\* was moved to the lowest value through other proxies and other keys were
\* given nodes of their own
C20_Witness ==
    /\ ret.op = "pinc" /\ ret.exc = "none"
    /\ proxy.new
    /\ ReadVal(St, proxy.key) = 1 - MaxVal
    /\ Len(nodeList_) = 3

\* ======================================================================
\* The iterator variant (frequency counter with begin()/end())
\* ======================================================================

\* mutant: the key is reinserted also when it was decremented to zero
itDecrement_keepZero(st, key) ==
    IF key \notin DOMAIN st.k2n THEN st
    ELSE IF ~Deref(st.nl, st.k2n[key]) THEN Undefined(st)
    ELSE LET current_nodeIt == st.k2n[key]
             end == Len(st.nl) + 1
             prevNodeIt == IF current_nodeIt # 1 THEN current_nodeIt - 1 ELSE end
             newVal == st.nl[current_nodeIt].val - 1
             s1 == KeysErase(st, current_nodeIt, key)
             create == prevNodeIt = end \/ st.nl[prevNodeIt].val # newVal
             prev2 == IF create THEN current_nodeIt ELSE prevNodeIt
             cur2 == IF create THEN current_nodeIt + 1 ELSE current_nodeIt
             s2 == IF create
                   THEN ListInsert(s1, current_nodeIt, [val |-> newVal, keys |-> {}])
                   ELSE s1
             s3 == [KeysInsert(s2, prev2, key) EXCEPT !.k2n = MapPut(@, key, prev2)]
         IN IF s3.nl[cur2].keys = {} THEN ListErase(s3, cur2) ELSE s3

\* priority_map::increment(key)
itIncrement(st, key) ==
    IF key \notin DOMAIN st.k2n
    THEN Undefined([st EXCEPT !.k2n = MapPut(@, key, 0)])
    ELSE IF ~Deref(st.nl, st.k2n[key]) THEN Undefined(st)
    ELSE LET nodeIt == st.k2n[key]
             nextNodeIt == nodeIt + 1
             newVal == st.nl[nodeIt].val + 1
             s1 == KeysErase(st, nodeIt, key)
             create == nextNodeIt = Len(st.nl) + 1 \/ st.nl[nextNodeIt].val # newVal
             s2 == IF create
                   THEN ListInsert(s1, nextNodeIt, [val |-> newVal, keys |-> {}])
                   ELSE s1
             s3 == [KeysInsert(s2, nextNodeIt, key) EXCEPT !.k2n = MapPut(@, key, nextNodeIt)]
         IN IF s3.nl[nodeIt].keys = {} THEN ListErase(s3, nodeIt) ELSE s3

\* priority_map::decrement(key)
itDecrement(st, key) ==
    IF key \notin DOMAIN st.k2n THEN st
    ELSE IF ~Deref(st.nl, st.k2n[key]) THEN Undefined(st)
    ELSE LET current_nodeIt == st.k2n[key]
             end == Len(st.nl) + 1
             prevNodeIt == IF current_nodeIt # 1 THEN current_nodeIt - 1 ELSE end
             newVal == st.nl[current_nodeIt].val - 1
             s1 == KeysErase(st, current_nodeIt, key)
             create == prevNodeIt = end \/ st.nl[prevNodeIt].val # newVal
             prev2 == IF create THEN current_nodeIt ELSE prevNodeIt
             cur2 == IF newVal > 0 /\ create THEN current_nodeIt + 1 ELSE current_nodeIt
             s2 == IF create
                   THEN ListInsert(s1, current_nodeIt, [val |-> newVal, keys |-> {}])
                   ELSE s1
             s3 == IF newVal > 0
                   THEN [KeysInsert(s2, prev2, key) EXCEPT !.k2n = MapPut(@, key, prev2)]
                   ELSE s1
         IN IF s3.nl[cur2].keys = {} THEN ListErase(s3, cur2) ELSE s3

\* mutant: push_back instead of push_front
itSubscript_back(st, key) ==
    IF key \notin DOMAIN st.k2n
    THEN [st EXCEPT !.nl = Append(@, [val |-> 0, keys |-> {key}]),
                    !.k2n = MapPut(@, key, Len(st.nl) + 1)]
    ELSE st

\* priority_map::operator[](key): a new key gets a node of its own at the front
itSubscript(st, key) ==
    IF key \notin DOMAIN st.k2n
    THEN [ListInsert(st, 1, [val |-> 0, keys |-> {key}]) EXCEPT !.k2n = MapPut(@, key, 1)]
    ELSE st

\* the keys of a std::unordered_set in its iteration order
RECURSIVE KeySeq(_)
KeySeq(S) == IF S = {} THEN <<>> ELSE <<setBegin(S)>> \o KeySeq(S \ {setBegin(S)})

\* Iterator: nodeListIt is a list position, keySetIt a position in the key
\* set's iteration order (0: value-initialised)
itEnd(nl) == [nodeListIt |-> Len(nl) + 1, keySetIt |-> 0]

\* priority_map::begin()
itBegin(nl) == IF nl = <<>> THEN itEnd(nl) ELSE [nodeListIt |-> 1, keySetIt |-> 1]

\* Iterator::operator==
itEq(nl, a, b) ==
    a.nodeListIt = b.nodeListIt /\ (a.nodeListIt = Len(nl) + 1 \/ a.keySetIt = b.keySetIt)

\* Iterator::operator++
itNext(nl, it) ==
    IF it.nodeListIt = Len(nl) + 1 THEN it
    ELSE IF it.keySetIt + 1 > Cardinality(nl[it.nodeListIt].keys)
         THEN [nodeListIt |-> it.nodeListIt + 1, keySetIt |-> 1]
         ELSE [it EXCEPT !.keySetIt = @ + 1]

\* Iterator::operator*: currentPair; key 0 stands for the dereference of the
\* begin() of an empty key set
itPair(nl, n, k) ==
    IF k \in 1..Cardinality(nl[n].keys)
    THEN <<KeySeq(nl[n].keys)[k], nl[n].val>>
    ELSE <<0, nl[n].val>>

\* for (it = begin(); it != end(); ++it) yield *it
RECURSIVE ForwardFrom(_, _)
ForwardFrom(nl, it) ==
    IF itEq(nl, it, itEnd(nl)) THEN <<>>
    ELSE <<itPair(nl, it.nodeListIt, it.keySetIt)>> \o ForwardFrom(nl, itNext(nl, it))

Forward(nl) == ForwardFrom(nl, itBegin(nl))

\* ReverseIterator: nodeListIt is the position of the node the reverse iterator
\* refers to (0: rend()), keySetIt as for Iterator
ritEnd(nl) == [nodeListIt |-> 0, keySetIt |-> 0]

\* priority_map::rbegin()
ritBegin(nl) == IF nl = <<>> THEN ritEnd(nl) ELSE [nodeListIt |-> Len(nl), keySetIt |-> 1]

\* ReverseIterator::operator==
ritEq(a, b) ==
    a.nodeListIt = b.nodeListIt /\ (a.nodeListIt = 0 \/ a.keySetIt = b.keySetIt)

\* ReverseIterator::operator++
ritNext(nl, it) ==
    IF it.nodeListIt = 0 THEN it
    ELSE IF it.keySetIt + 1 > Cardinality(nl[it.nodeListIt].keys)
         THEN [nodeListIt |-> it.nodeListIt - 1, keySetIt |-> 1]
         ELSE [it EXCEPT !.keySetIt = @ + 1]

\* for (it = rbegin(); it != rend(); ++it) yield *it
RECURSIVE ReverseFrom(_, _)
ReverseFrom(nl, it) ==
    IF ritEq(it, ritEnd(nl)) THEN <<>>
    ELSE <<itPair(nl, it.nodeListIt, it.keySetIt)>> \o ReverseFrom(nl, ritNext(nl, it))

Reverse(nl) == ReverseFrom(nl, ritBegin(nl))

\* ++pmap[k];
ItInc(k) ==
    /\ Running
    /\ RefVal(k) + 1 <= MaxCount
    /\ \E s \in {itSubscript(St, k)} : Commit(itIncrement(s, k))
    /\ ret' = Ret("inc", k, RefVal(k) + 1, "none", Absent(k))
    /\ ref' = MapPut(ref, k, RefVal(k) + 1)
    /\ Frozen

\* --pmap[k];   the reference count of a key that reaches zero is dropped
ItDec(k) ==
    /\ Running
    /\ \E s \in {itSubscript(St, k)} : Commit(itDecrement(s, k))
    /\ ret' = Ret("dec", k, RefVal(k) - 1, "none", Absent(k))
    /\ ref' = IF RefVal(k) >= 2 THEN MapPut(ref, k, RefVal(k) - 1) ELSE MapErase(ref, k)
    /\ Frozen

NextIt == (\E k \in Keys : ItInc(k)) \/ (\E k \in Keys : ItDec(k))

SpecIt == Init /\ [][NextIt]_vars

\* --pmap[k]; for a key whose count stays positive
ItDecAbove(k) ==
    /\ RefVal(k) >= 2
    /\ ItDec(k)

NextCount == (\E k \in Keys : ItInc(k)) \/ (\E k \in Keys : ItDecAbove(k))

\* only ++ and the -- that leave a positive count
SpecCount == Init /\ [][NextCount]_vars

\* ======================================================================
\* Properties of the iterator variant
\* ======================================================================

\* the pairs (key, count) of the reference counts
RefPairs == {<<k, ref[k]>> : k \in DOMAIN ref}

SeqSet(q) == {q[i] : i \in 1..Len(q)}

\* the node list holds exactly the keys with a positive reference count, each
\* in a node with that count, and the index of each of them refers to it
CountsAgree(st) ==
    /\ ~st.ub
    /\ \A p \in 1..Len(st.nl) :
          /\ st.nl[p].keys # {}
          /\ \A k \in st.nl[p].keys : k \in DOMAIN ref /\ ref[k] = st.nl[p].val
    /\ \A k \in DOMAIN ref :
          /\ k \in DOMAIN st.k2n
          /\ Deref(st.nl, st.k2n[k])
          /\ k \in st.nl[st.k2n[k]].keys

C22_Iteration ==
    LET F == Forward(nodeList_)
        R == Reverse(nodeList_)
    IN /\ ~ub
       /\ SeqSet(F) = RefPairs
       /\ Len(F) = Cardinality(DOMAIN ref)
       /\ \A i, j \in 1..Len(F) : i < j => F[i][2] <= F[j][2]
       /\ SeqSet(R) = SeqSet(F)
       /\ Len(R) = Len(F)
       /\ \A i, j \in 1..Len(R) : i < j => R[i][2] >= R[j][2]
       /\ \A i, j \in 1..Len(R) :
             (i < j /\ R[i][2] = R[j][2]) =>
                \E a, b \in 1..Len(F) : a < b /\ F[a] = R[i] /\ F[b] = R[j]

\* a count has just been decremented to a positive value; three keys are
\* iterated over, two of them in one node
C22_Witness ==
    /\ ret.op = "dec"
    /\ Len(Forward(nodeList_)) = 3
    /\ Len(nodeList_) = 2
    /\ Forward(nodeList_)[1][2] < Forward(nodeList_)[3][2]
    /\ Reverse(nodeList_)[1][2] > Reverse(nodeList_)[3][2]

\* ======================================================================
\* The first variant with update(): the searches compare strictly

\* the positions of the list elements that satisfy the strict search
\* predicate: newVal > node.val (gt) or newVal < node.val
StrictHits(seq, gt, newVal) ==
    {p \in 1..Len(seq) : IF gt THEN newVal > seq[p] ELSE newVal < seq[p]}

\* update(), branch comp_(oldVal, newVal): linear search towards end
firstTowardsEnd(s1, key, newVal, oldIt) ==
    LET ip == FindIf(StrictHits(NodeVals(s1.nl), comp_(1, 0), newVal), oldIt, Len(s1.nl))
        merge == ip # Len(s1.nl) + 1 /\ s1.nl[ip].val = newVal
        s2 == IF merge THEN KeysInsert(s1, ip, key)
              ELSE ListInsert(s1, ip, [val |-> newVal, keys |-> {key}])
        s3 == [s2 EXCEPT !.k2n = MapPut(@, key, ip)]
        old2 == IF ~merge /\ oldIt >= ip THEN oldIt + 1 ELSE oldIt
    IN EraseIfEmpty(s3, old2)

\* update(), else branch: linear search towards begin with reverse iterators
firstTowardsBegin(s1, key, newVal, oldIt) ==
    LET rip == RFindIf(StrictHits(NodeVals(s1.nl), comp_(0, 1), newVal), oldIt)
        merge == rip # 1 /\ s1.nl[rip - 1].val = newVal
        s2 == IF merge THEN KeysInsert(s1, rip - 1, key)
              ELSE ListInsert(s1, rip, [val |-> newVal, keys |-> {key}])
        s3 == [s2 EXCEPT !.k2n = MapPut(@, key, IF merge THEN rip - 1 ELSE rip)]
        old2 == IF ~merge /\ oldIt >= rip THEN oldIt + 1 ELSE oldIt
    IN EraseIfEmpty(s3, old2)

\* priority_map::update(key, newVal) of the first variant
firstUpdate(st, key, newVal) ==
    IF key \notin DOMAIN st.k2n
    THEN Undefined([st EXCEPT !.k2n = MapPut(@, key, 0)])
    ELSE IF ~Deref(st.nl, st.k2n[key]) THEN Undefined(st)
    ELSE LET oldIt == st.k2n[key]
             oldVal == st.nl[oldIt].val
             s1 == [KeysErase(st, oldIt, key) EXCEPT !.k2n = MapErase(@, key)]
         IN IF oldVal = newVal THEN st
            ELSE IF comp_(oldVal, newVal)
                 THEN firstTowardsEnd(s1, key, newVal, oldIt)
                 ELSE firstTowardsBegin(s1, key, newVal, oldIt)

\* update(k, v) of a present key, from any consistent state
FirstUpdate(k, v) ==
    /\ Running
    /\ k \in DOMAIN keyToNode_
    /\ Commit(firstUpdate(St, k, v))
    /\ ret' = Ret("update", k, v, "none", FALSE)
    /\ ref' = MapPut(ref, k, v)
    /\ Frozen

NextFirst == \E k \in Keys, v \in Vals : FirstUpdate(k, v)

SpecFirst == InitStep /\ [][NextFirst]_vars

\* C26: in the first variant, when update(key, newVal) moves a key of a
\* consistent structure to a value another node already holds, the key joins
\* that node and no two nodes hold the same value afterwards
C26_MergeOnEqual ==
    [][ (ret'.op = "update" /\ Consistent(St)
         /\ \E p \in 1..Len(nodeList_) :
               p # keyToNode_[ret'.key] /\ nodeList_[p].val = ret'.val)
        => /\ ~ub'
           /\ NoDup(nodeList_')
           /\ \E p \in 1..Len(nodeList_) :
                 /\ nodeList_[p].val = ret'.val
                 /\ Deref(nodeList_', keyToNode_'[ret'.key])
                 /\ nodeList_'[keyToNode_'[ret'.key]].keys
                      = nodeList_[p].keys \cup {ret'.key} ]_vars

\* ======================================================================
\* Further properties of the header with increment/decrement/emplace
\* ======================================================================

\* C23: from a state with strictly sorted nodes, no empty node and a
\* consistent index, increment(k) and decrement(k) of a present key lead to a
\* state with the same properties; k gets the new value and lands either in
\* the neighbouring node that already held the new value or in a new
\* single-key node next to the vacated node, which is removed when empty; no
\* other key changes.
C23_StepPreserves ==
    [][ ret'.op \in {"inc", "dec"} =>
          LET k == ret'.key
              p == keyToNode_[k]
              q == keyToNode_'[k]
              newVal == ret'.val
              nbr == {n \in {p - 1, p + 1} :
                         n \in 1..Len(nodeList_) /\ nodeList_[n].val = newVal}
              alone == nodeList_[p].keys = {k}
          IN /\ Consistent(St)
             /\ Consistent(St')
             /\ nodeList_'[q].val = newVal
             /\ newVal = nodeList_[p].val + (IF ret'.op = "inc" THEN 1 ELSE 0 - 1)
             /\ \A j \in (DOMAIN keyToNode_) \ {k} :
                   j \in DOMAIN keyToNode_' /\ ReadVal(St', j) = ReadVal(St, j)
             /\ IF nbr # {}
                THEN \E n \in nbr : nodeList_'[q].keys = nodeList_[n].keys \cup {k}
                ELSE nodeList_'[q].keys = {k}
             /\ q \in {p - 1, p, p + 1}
             /\ Len(nodeList_') = Len(nodeList_) + (IF nbr = {} THEN 1 ELSE 0)
                                                 - (IF alone THEN 1 ELSE 0) ]_vars

\* a key has just been incremented into a node of its own; of the two other
\* nodes one holds a value next to the new value and one does not
C23_Witness ==
    /\ ret.op = "inc"
    /\ Len(nodeList_) = 3
    /\ Size = MaxKey
    /\ nodeList_[keyToNode_[ret.key]].keys = {ret.key}
    /\ \E p \in 1..3 : p # keyToNode_[ret.key] /\ Abs(nodeList_[p].val - ret.val) = 1
                         /\ Cardinality(nodeList_[p].keys) = 1
    /\ \E p \in 1..3 : Abs(nodeList_[p].val - ret.val) > 1

\* the values strictly between a and b
Between(a, b) == {v \in Vals : (a < v /\ v < b) \/ (b < v /\ v < a)}

\* C25: an assignment to a present key scans from the vacated node in the
\* direction of the new value: it inspects no node on the far side of the
\* vacated node, and the number of inspected nodes is at most the number of
\* distinct values between the old and the new value plus two (the vacated
\* node and the node the scan stops at)
C25_EmplaceScan ==
    [][ (ret'.op = "assign" /\ ~ub')
        => LET k == ret'.key
               nodeIt == keyToNode_[k]
               oldVal == nodeList_[nodeIt].val
               scan == emplaceScan(St, k, ret'.val)
           IN /\ scan \subseteq (IF comp_(oldVal, ret'.val)
                                 THEN nodeIt..Len(nodeList_) ELSE 1..nodeIt)
              /\ Cardinality(scan) <= Cardinality(Between(oldVal, ret'.val)) + 2 ]_vars

\* ======================================================================
\* The node-list variant with erase: scan length, removal and re-entry

\* the step the last ++ or -- made: +1 or -1
StepOf(op) == IF op = "inc" THEN 1 ELSE 0 - 1

\* C24: a ++ or -- on a present key, done as update(key, getVal(key) +/- 1),
\* applies the search predicate to at most two nodes: the vacated node and
\* the one next to it in the direction of the move (towards end when
\* comp_(oldVal, newVal), towards begin otherwise), however many nodes the
\* list has
C24_StepScan ==
    [][ (ret'.op \in {"inc", "dec"} /\ ~ret'.new /\ ~ub')
        => LET k == ret'.key
               oldIt == keyToNode_[k]
               newVal == getVal(St, k) + StepOf(ret'.op)
               scan == updateScan(St, k, newVal)
           IN /\ Cardinality(scan) <= 2
              /\ scan \subseteq
                    (IF comp_(getVal(St, k), newVal)
                     THEN {oldIt, oldIt + 1} ELSE {oldIt - 1, oldIt}) ]_vars

\* a present key alone in the first of three nodes has just been moved one
\* step towards end under std::less: the list had a node two positions
\* beyond the vacated one
C24_Witness ==
    /\ ret.op = "inc" /\ ~ret.new /\ ~ub
    /\ comp = "less"
    /\ Len(nodeList_) = 3
    /\ keyToNode_[ret.key] = 1

\* C27: a key that erase() or pop() removed and that is accessed again with
\* operator[] is created anew with value 0, whatever value it held when it
\* was removed: the access reads 0, the key is in the node with value 0, and
\* the list is still strictly sorted with a consistent index
C27_ReentersWithZero ==
    [][ (ret'.op = "read" /\ ret'.new /\ drained # <<>> /\ drained[1].key = ret'.key)
        => /\ ~ub'
           /\ ret'.val = 0
           /\ ret'.key \in DOMAIN keyToNode_'
           /\ getVal(St', ret'.key) = 0
           /\ Consistent(St')
           /\ \A j \in DOMAIN keyToNode_ :
                 j \in DOMAIN keyToNode_' /\ getVal(St', j) = getVal(St, j) ]_vars

\* a key removed while it held a value other than 0 has just been read again
\* and got a 0 node of its own between a node before and a node after it
C27_Witness ==
    /\ ret.op = "read" /\ ret.new /\ ~ub
    /\ drained # <<>> /\ drained[1].key = ret.key /\ drained[1].val # 0
    /\ Len(nodeList_) = 3
    /\ keyToNode_[ret.key] = 2

\* C28: a pop() that directly follows a top() removes exactly the key that
\* top() returned, also when the first node holds several keys; every other
\* key, those of the first node included, stays present with its value
C28_PopRemovesTop ==
    [][ (ret'.op = "toppop" /\ ret'.exc = "none")
        => LET t == drained'[Len(drained')]
           IN /\ ~ub'
              /\ t.key \in nodeList_[1].keys
              /\ t.val = nodeList_[1].val
              /\ DOMAIN keyToNode_' = DOMAIN keyToNode_ \ {t.key}
              /\ \A j \in DOMAIN keyToNode_' :
                    /\ getVal(St', j) = getVal(St, j)
                    /\ j \in nodeList_[1].keys => keyToNode_'[j] = 1
              /\ Bijection(St') ]_vars

\* top() returned one of three keys that shared the extreme value and pop()
\* has removed it: the two others are still in the first node
C28_Witness ==
    /\ ret.op = "toppop" /\ ret.exc = "none" /\ ~ub
    /\ Len(drained) = 1
    /\ nodeList_ # <<>>
    /\ nodeList_[1].val = drained[1].val
    /\ Cardinality(nodeList_[1].keys) = 2
    /\ drained[1].key \notin DOMAIN keyToNode_

\* C29: a read, ++ or -- through a proxy whose key is no longer present
\* (erase() or pop() removed it after the proxy was made) throws
\* std::out_of_range and changes neither the node list nor the key index: the
\* key is not created again
C29_StaleProxyThrows ==
    [][ (ret'.op \in {"pread", "pinc", "pdec"} /\ proxy.key \notin DOMAIN keyToNode_)
        => /\ ret'.key = proxy.key
           /\ ret'.exc = "out_of_range"
           /\ ~ub'
           /\ UNCHANGED <<nodeList_, keyToNode_>>
           /\ proxy.key \notin DOMAIN keyToNode_' ]_vars

\* ++ through a proxy has thrown: the proxy's key is absent while two other
\* keys are present in two nodes
C29_Witness ==
    /\ ret.op = "pinc" /\ ret.exc = "out_of_range" /\ ~ub
    /\ proxy.key # 0 /\ proxy.key \notin DOMAIN keyToNode_
    /\ Len(nodeList_) = 2
    /\ Size = 2

\* C30: an assignment through a proxy whose key is no longer present either
\* fails and changes nothing or creates the key again with the assigned
\* value; afterwards every entry of the key index refers to a node of the
\* list that holds the key, and every key of a node has its index entry
C30_StaleAssign ==
    [][ (ret'.op = "passign" /\ proxy.key \notin DOMAIN keyToNode_)
        => /\ ~ub'
           /\ Bijection(St')
           /\ \/ UNCHANGED <<nodeList_, keyToNode_>>
              \/ /\ proxy.key \in DOMAIN keyToNode_'
                 /\ getVal(St', proxy.key) = ret'.val ]_vars

\* ======================================================================
\* The header with an unsigned priority type

\* C31: with an unsigned ValType, a decrement of a key at 0 (to 2^Width - 1)
\* and an increment of a key at 2^Width - 1 (to 0) of a consistent structure
\* leave the node list strictly sorted under Compare, and the first node
\* holds the extreme of the values of all present keys
C31_WrapSorted ==
    [][ (/\ ret'.op \in {"inc", "dec"}
         /\ Consistent(St)
         /\ ret'.val = (IF ret'.op = "inc" THEN 0 ELSE 2^Width - 1))
        => /\ ~ub'
           /\ Consistent(St')
           /\ getVal(St', ret'.key) = ret'.val
           /\ nodeList_'[1].val = (LET V == {ref'[k] : k \in DOMAIN ref'}
                                   IN IF comp = "less" THEN Min(V) ELSE Max(V)) ]_vars

\* ======================================================================
\* The node-list variant with erase: emptiness

\* C32: as long as no operation was undefined, the first node of a non-empty
\* node list holds at least one key, so top() and pop() never throw
\* std::logic_error
C32_NoLogicError ==
    ~ub => /\ topThrows(St) # "logic_error"
           /\ ret.exc # "logic_error"
           /\ nodeList_ # <<>> => nodeList_[1].keys # {}

\* pop() has removed the key of a kept proxy from a first node it shared
\* with another key; a second node follows
C32_Witness ==
    /\ ~ub
    /\ ret.op = "pop" /\ ret.exc = "none"
    /\ proxy.key = ret.key
    /\ Len(nodeList_) = 2
    /\ Cardinality(nodeList_[1].keys) = 1
    /\ ref # <<>> /\ nodeList_[1].val = RefExtreme
    /\ Size = 2

\* C33: the node list is empty exactly when the key index is empty: top()
\* and pop() would throw std::out_of_range exactly when empty() is true, and
\* an empty() call returns true exactly in those states
C33_EmptyAgree ==
    ~ub => /\ (nodeList_ = <<>>) <=> empty(St)
           /\ (topThrows(St) = "out_of_range") <=> empty(St)
           /\ ret.op = "empty" => (ret.val = 1 <=> nodeList_ = <<>>)
           /\ (ret.op \in {"top", "pop"} /\ ret.exc = "out_of_range") => empty(St)

\* pop() has just removed the last key: list and index are both empty
C33_Witness ==
    /\ ~ub
    /\ ret.op = "pop" /\ ret.exc = "none" /\ ret.key # 0
    /\ nodeList_ = <<>>
    /\ keyToNode_ = <<>>

\* ======================================================================
\* The node-list variant and the value-list variant side by side: every
\* operation is applied to both structures

BothCommit(s, t) ==
    /\ nodeList_' = s.nl
    /\ keyToNode_' = s.k2n
    /\ vals_' = t.nl
    /\ keys_' = t.k2n
    /\ valToKeys_' = t.v2k
    /\ ub' = (s.ub \/ t.ub)

BothFrozen ==
    /\ UNCHANGED <<comp, hashOrd, mode, drainKeys, drained>>
    /\ UNCHANGED topSortVars
    /\ UNCHANGED proxy

\* ValType v = pmap[k];
BothRead(k) ==
    /\ Running
    /\ \E s \in {subscript(St, k)}, t \in {vSubscript(VSt, k)} :
          /\ BothCommit(IF ReadUndefined(s, k) THEN Undefined(s) ELSE s,
                        IF ReadUndefined(t, k) THEN Undefined(t) ELSE t)
          /\ ret' = Ret("read", k, ReadVal(s, k), "none", Absent(k))
    /\ ref' = MapPut(ref, k, RefVal(k))
    /\ BothFrozen

\* ++pmap[k]; / --pmap[k];
BothStep(k, d) ==
    /\ Running
    /\ RefVal(k) + d \in Vals
    /\ BothCommit(proxyStep(subscript(St, k), k, d), vProxyStep(vSubscript(VSt, k), k, d))
    /\ ret' = Ret(IF d = 1 THEN "inc" ELSE "dec", k, 0, "none", Absent(k))
    /\ ref' = MapPut(ref, k, RefVal(k) + d)
    /\ BothFrozen

\* pmap[k] = v;
BothAssign(k, v) ==
    /\ Running
    /\ BothCommit(update(subscript(St, k), k, v), vUpdate(vSubscript(VSt, k), k, v))
    /\ ret' = Ret("assign", k, v, "none", Absent(k))
    /\ ref' = MapPut(ref, k, v)
    /\ BothFrozen

\* pmap.erase(k);
BothErase(k) ==
    /\ Running
    /\ BothCommit(erase(St, k), vErase(VSt, k))
    /\ ret' = Ret("erase", k, count(St, k), "none", Absent(k))
    /\ ref' = MapErase(ref, k)
    /\ BothFrozen

\* pmap.top(); pmap.pop();
BothPop ==
    /\ Running
    /\ BothCommit(pop(St), vPop(VSt))
    /\ ret' = IF topThrows(St) = "none"
              THEN Ret("pop", top(St).key, top(St).val, "none", FALSE)
              ELSE Ret("pop", 0, 0, topThrows(St), FALSE)
    /\ ref' = IF topThrows(St) = "none" THEN MapErase(ref, top(St).key) ELSE ref
    /\ BothFrozen

NextBoth ==
    \/ \E k \in Keys : BothRead(k)
    \/ \E k \in Keys, d \in {1, 0 - 1} : BothStep(k, d)
    \/ \E k \in Keys, v \in Vals : BothAssign(k, v)
    \/ \E k \in Keys : BothErase(k)
    \/ BothPop

SpecBoth == Init /\ [][NextBoth]_vars

C35_ZeroLeavesIndex ==
    [][ /\ (ret'.op = "dec" /\ CountsAgree(St) /\ RefVal(ret'.key) = 1)
           => /\ ~ub'
              /\ ret'.key \notin DOMAIN keyToNode_'
              /\ \A k \in DOMAIN keyToNode_' : Deref(nodeList_', keyToNode_'[k])
        /\ (ret'.op = "inc" /\ ~ub /\ ret'.key \notin DOMAIN ref)
           => /\ ~ub'
              /\ Deref(nodeList_', keyToNode_'[ret'.key])
              /\ nodeList_'[keyToNode_'[ret'.key]].val = 1
              /\ Cardinality({i \in 1..Len(Forward(nodeList_')) :
                                 Forward(nodeList_')[i][1] = ret'.key}) = 1
              /\ <<ret'.key, 1>> \in SeqSet(Forward(nodeList_')) ]_vars

\* ======================================================================
\* The value-list variant: its three containers

\* C36: after every operation the values with an entry in valToKeys_ are
\* exactly the values of vals_, no mapped key set is empty, vals_ holds no
\* value twice, and every key of keys_ refers to an element of vals_ whose
\* key set holds the key, while no other key set holds it; every key of a
\* key set is a key of keys_
C36_ValueListConsistent ==
    /\ ~ub
    /\ DOMAIN valToKeys_ = {vals_[p] : p \in 1..Len(vals_)}
    /\ \A v \in DOMAIN valToKeys_ : valToKeys_[v] # {}
    /\ \A p, q \in 1..Len(vals_) : p # q => vals_[p] # vals_[q]
    /\ \A k \in DOMAIN keys_ :
          /\ Deref(vals_, keys_[k])
          /\ k \in valToKeys_[vals_[keys_[k]]]
          /\ \A v \in DOMAIN valToKeys_ : k \in valToKeys_[v] => v = vals_[keys_[k]]
    /\ \A v \in DOMAIN valToKeys_ : valToKeys_[v] \subseteq DOMAIN keys_

\* an assignment to a present key has just left it alone at the middle one
\* of three values
C36_Witness ==
    /\ ~ub
    /\ ret.op = "assign" /\ ~ret.new
    /\ Len(vals_) = 3
    /\ keys_[ret.key] = 2
    /\ Cardinality(DOMAIN keys_) = 3
    /\ valToKeys_[vals_[2]] = {ret.key}

====
